---- MODULE Spec2Model ----
(***************************************************************************)
(* Silhouette (legacy) machine-code passes for ARMv7-M: the IT-block       *)
(* editor of ARMSilhouetteInstrumentor, the store-to-unprivileged-store    *)
(* rewriting of ARMSilhouetteSTR2STRT, the shadow-stack prologue/epilogue  *)
(* rewriting of ARMSilhouetteShadowStack, the label check of               *)
(* ARMSilhouetteLabelCFI, the store masking of ARMSilhouetteSFI and the    *)
(* branch-target masking of ARMSilhouetteCFI.                              *)
(*                                                                         *)
(* Spec       : the IT-block editor acting on one basic block.             *)
(* SpecStore  : a rewritten store executed on a small Thumb-2 machine,     *)
(*              with interrupts at instruction boundaries.                 *)
(* SpecShadow : a rewritten prologue/epilogue pair executed with nested    *)
(*              calls and writes to the ordinary stack.                    *)
(* SpecCFI    : the label-check sequence executed before a transfer.       *)
(* SpecLabel  : the label pass placing labels in a function.               *)
(* SpecSFI    : a store masked by the SFI pass and executed.               *)
(* SpecAlign  : an indirect transfer masked by the CFI pass and executed.  *)
(* SpecMulti  : a rewritten store-multiple executed.                       *)
(* SpecSpill  : a rewritten store that spills scratch registers, executed. *)
(* SpecTag    : a block with a tagged store going through both store       *)
(*              passes.                                                    *)
(* SpecDeny   : a function of the deny list or the privileged section      *)
(*              going through one of the five passes.                      *)
(* SpecTeardown : a rewritten epilogue pop executed.                       *)
(* SpecCodec  : masks and lists taken through the IT mask codec.           *)
(* SpecFind   : findIT called on an instruction of a block with headers.   *)
(* SpecJump   : a function with jump-table branches going through the two  *)
(*              control-flow passes.                                       *)
(* SpecGuard  : the label pass on a transfer that a header governs.        *)
(* SpecSplit  : the shadow-stack pass on a header whose block pops PC.     *)
(* SpecGov    : the condition at a rank as each pass derives it.           *)
(* SpecPartition : one store offered to the first loop of both store       *)
(*              passes under each SFI configuration.                       *)
(* SpecBoundary : a block or function placed at its alignment and masked.  *)
(* SpecUnknown : a store outside the classification table going through a  *)
(*              store pass.                                                *)
(* SpecDebug  : search and edits in a block with debug pseudo-instructions.*)
(***************************************************************************)
EXTENDS Integers, Sequences, FiniteSets, TLC

VARIABLES
    MBB,        \* the basic block: a sequence of instructions
    preMBB,     \* the block as it was before the last edit
    lastEdit,   \* the last edit: its kind, the id of MI, the ids spliced in
    edits,      \* number of edits made so far
    prog,       \* the instructions the processor is running
    ip,         \* index into prog of the next instruction to execute
    regs,       \* the core registers R0..R12, SP, LR, PC and the Z flag
    mem,        \* memory: a byte for every address written so far
    ctx         \* what is being run: the instruction rewritten, counters

editorVars == <<MBB, preMBB, lastEdit, edits>>

machineVars == <<prog, ip, regs, mem, ctx>>

vars == <<MBB, preMBB, lastEdit, edits, prog, ip, regs, mem, ctx>>

----------------------------------------------------------------------------
(* Bounds of the block-editor model.                                       *)

\* edits applied one after another to a block
MaxEdits == 2
\* instructions spliced in by one insertInstsBefore / insertInstsAfter
MaxInsts == 2
\* ungoverned instructions in front of the header in the initial block
MaxPrefix == 1
\* ungoverned instructions behind the governed span in the initial block
MaxSuffix == 1

----------------------------------------------------------------------------
(* Condition codes (ARMCC::CondCodes) and small helpers.                   *)

ARMCC_NE == 1
ARMCC_AL == 14

\* base conditions the initial headers are drawn from: an even and an odd code
\* (EQ and NE)
Conds == {0, ARMCC_NE}

\* ARMCC::getOppositeCondition: EQ<->NE, HS<->LO, ... (pairs 2n, 2n+1)
getOppositeCondition(CC) ==
    IF CC % 2 = 0 THEN CC + 1 ELSE CC - 1

Pow2(n) == 2 ^ n

\* bit i of a non-negative integer
Bit(x, i) == (x \div Pow2(i)) % 2

Min(a, b) == IF a < b THEN a ELSE b

Max(a, b) == IF a < b THEN b ELSE a

----------------------------------------------------------------------------
(* Instructions of a block.  A t2IT carries its first condition and mask;  *)
(* any other instruction is opaque to the editor.                          *)

ITInst(id, cc, mask) == [id |-> id, op |-> "t2IT", cc |-> cc, mask |-> mask]

PlainInst(id) == [id |-> id, op |-> "inst", cc |-> ARMCC_AL, mask |-> 0]

\* getITBlockSize: number of instructions a header covers
getITBlockSize(Mask) ==
    IF Bit(Mask, 0) = 1 THEN 4
    ELSE IF Bit(Mask, 1) = 1 THEN 3
    ELSE IF Bit(Mask, 2) = 1 THEN 2
    ELSE 1

NoIT == [it |-> 0, distance |-> 0]

RECURSIVE findITWalkNoSize(_, _, _)
\* the backward walk of findIT without the comparison to getITBlockSize
findITWalkNoSize(S, q, dist) ==
    IF q = 0 \/ dist >= 5 THEN NoIT
    ELSE IF S[q].op = "t2IT" THEN [it |-> q, distance |-> dist]
         ELSE findITWalkNoSize(S, q - 1, dist + 1)

RECURSIVE findITWalk(_, _, _)
\* the backward walk of findIT: q is the position of Prev (0 = nullptr)
findITWalk(S, q, dist) ==
    IF q = 0 \/ dist >= 5 THEN NoIT
    ELSE IF S[q].op = "t2IT"
         THEN IF getITBlockSize(S[q].mask) >= dist
              THEN [it |-> q, distance |-> dist]
              ELSE NoIT
         ELSE findITWalk(S, q - 1, dist + 1)

\* findIT(MI, distance): position of the governing header of S[p], or NoIT
findIT(S, p) == findITWalk(S, p - 1, 1)

\* decodeITMask with a set mask bit read as "same as the first"
decodeITMaskSetBits(Mask) ==
    LET size == getITBlockSize(Mask)
    IN  <<TRUE>> \o [j \in 1..(size - 1) |-> Bit(Mask, 4 - j) = 1]

\* decodeITMask: the same-as-first-condition list of a mask
decodeITMask(Mask) ==
    LET size == getITBlockSize(Mask)
    IN  <<TRUE>> \o [j \in 1..(size - 1) |-> Bit(Mask, 4 - j) = 0]

RECURSIVE encodeLoop(_, _, _)
\* the loop of encodeITMask over DQMask[1 .. size-1] (0-based in the code)
encodeLoop(DQMask, i, Mask) ==
    IF i >= Len(DQMask) THEN Mask
    ELSE encodeLoop(DQMask, i + 1, (Mask + (IF DQMask[i + 1] THEN 0 ELSE 1)) * 2)

\* encodeITMask: the mask of a same-as-first-condition list
encodeITMask(DQMask) ==
    (encodeLoop(DQMask, 1, 0) + 1) * Pow2(4 - Len(DQMask))


----------------------------------------------------------------------------
(* The editing operations.  S is the block, p the position of MI in it,    *)
(* Insts the sequence of new instructions.                                 *)

RECURSIVE MaxIdOf(_)
MaxIdOf(S) == IF S = <<>> THEN 0 ELSE Max(Head(S).id, MaxIdOf(Tail(S)))

InsertAt(S, p, X) == SubSeq(S, 1, p - 1) \o X \o SubSeq(S, p, Len(S))

RemoveAt(S, p) == SubSeq(S, 1, p - 1) \o SubSeq(S, p + 1, Len(S))

Negate(DQ) == [k \in 1..Len(DQ) |-> ~DQ[k]]

RECURSIVE coverWithITsNoFlip(_, _, _, _)
\* coverWithITs with the base condition of a flipped chunk left as it was
coverWithITsNoFlip(Rng, DQMask, firstCond, id) ==
    IF Rng = <<>> THEN <<>>
    ELSE LET n     == Min(4, Len(Rng))
             NewDQ == SubSeq(DQMask, 1, n)
             flip  == ~NewDQ[1]
         IN  <<ITInst(id, firstCond,
                      encodeITMask(IF flip THEN Negate(NewDQ) ELSE NewDQ))>>
             \o SubSeq(Rng, 1, n)
             \o coverWithITsNoFlip(SubSeq(Rng, n + 1, Len(Rng)),
                                   SubSeq(DQMask, n + 1, Len(DQMask)),
                                   firstCond, id + 1)

RECURSIVE coverWithITs(_, _, _, _)
\* "Insert ITs to cover instructions from [firstMI, lastMI)": one new header
\* per chunk of at most 4 instructions; a chunk whose first flag is false is
\* negated and gets the opposite base condition
coverWithITs(Rng, DQMask, firstCond, id) ==
    IF Rng = <<>> THEN <<>>
    ELSE LET n     == Min(4, Len(Rng))
             NewDQ == SubSeq(DQMask, 1, n)
             flip  == ~NewDQ[1]
         IN  <<ITInst(id,
                      IF flip THEN getOppositeCondition(firstCond) ELSE firstCond,
                      encodeITMask(IF flip THEN Negate(NewDQ) ELSE NewDQ))>>
             \o SubSeq(Rng, 1, n)
             \o coverWithITs(SubSeq(Rng, n + 1, Len(Rng)),
                             SubSeq(DQMask, n + 1, Len(DQMask)),
                             firstCond, id + 1)

\* reencodeIT with the original header left in the block
reencodeITKeepOld(S1, f, last, at, k, newId) ==
    LET IT          == S1[f.it]
        DQMask      == decodeITMask(IT.mask % 16)
        sameAsFirst == DQMask[f.distance]
        DQMask2     == SubSeq(DQMask, 1, at)
                       \o [i \in 1..k |-> sameAsFirst]
                       \o SubSeq(DQMask, at + 1, Len(DQMask))
        Rng         == SubSeq(S1, f.it + 1, last)
    IN  SubSeq(S1, 1, f.it)
        \o coverWithITs(Rng, DQMask2, IT.cc, newId)
        \o SubSeq(S1, last + 1, Len(S1))

\* the common tail of insertInstsBefore / insertInstsAfter once the new
\* instructions are in the block S1: f is the header found for MI, last the
\* position in S1 of the last instruction of [firstMI, lastMI), at the index
\* (0-based) of the deque where the new flags go
reencodeIT(S1, f, last, at, k, newId) ==
    LET IT          == S1[f.it]
        Mask        == IT.mask % 16
        firstCond   == IT.cc
        DQMask      == decodeITMask(Mask)
        sameAsFirst == DQMask[f.distance]
        DQMask2     == SubSeq(DQMask, 1, at)
                       \o [i \in 1..k |-> sameAsFirst]
                       \o SubSeq(DQMask, at + 1, Len(DQMask))
        Rng         == SubSeq(S1, f.it + 1, last)
    IN  SubSeq(S1, 1, f.it - 1)
        \o coverWithITs(Rng, DQMask2, firstCond, newId)
        \o SubSeq(S1, last + 1, Len(S1))

\* insertInstsBefore(MI, Insts)
insertInstsBefore(S, p, Insts) ==
    LET f  == findIT(S, p)
        k  == Len(Insts)
        S1 == InsertAt(S, p, Insts)
    IN  IF f.it = 0 THEN S1
        ELSE reencodeIT(S1, f,
                        (p + k) + (getITBlockSize(S[f.it].mask) - f.distance),
                        f.distance - 1, k,
                        Max(MaxIdOf(S), MaxIdOf(Insts)) + 1)

\* insertInstsAfter(MI, Insts)
insertInstsAfter(S, p, Insts) ==
    LET f  == findIT(S, p)
        k  == Len(Insts)
        S1 == InsertAt(S, p + 1, Insts)
    IN  IF f.it = 0 THEN S1
        ELSE reencodeIT(S1, f,
                        (p + k) + (getITBlockSize(S[f.it].mask) - f.distance),
                        f.distance, k,
                        Max(MaxIdOf(S), MaxIdOf(Insts)) + 1)

\* the header update of removeInst with the base condition never flipped
updateITNoFlip(IT, DQMask) ==
    IF DQMask[1] THEN [IT EXCEPT !.mask = encodeITMask(DQMask)]
    ELSE [IT EXCEPT !.mask = encodeITMask(Negate(DQMask))]

\* the header update of removeInst for a non-empty remaining list
updateIT(IT, DQMask) ==
    IF DQMask[1] THEN [IT EXCEPT !.mask = encodeITMask(DQMask)]
    ELSE [IT EXCEPT !.cc = getOppositeCondition(IT.cc),
                    !.mask = encodeITMask(Negate(DQMask))]

\* removeInst(MI)
removeInst(S, p) ==
    LET f == findIT(S, p)
    IN  IF f.it = 0 THEN RemoveAt(S, p)
        ELSE LET DQMask == decodeITMask(S[f.it].mask % 16)
                 DQ2    == RemoveAt(DQMask, f.distance)
             IN  IF DQ2 = <<>>
                 THEN RemoveAt(RemoveAt(S, p), f.it)
                 ELSE RemoveAt([S EXCEPT ![f.it] = updateIT(S[f.it], DQ2)], p)

----------------------------------------------------------------------------
(* The editor as a state machine over one basic block.                     *)

\* a block with np ungoverned instructions, one header (cc, mask) with its
\* governed instructions, and ns ungoverned instructions behind them
InitialBlock(np, cc, mask, ns) ==
    LET n == getITBlockSize(mask)
    IN  [i \in 1..np |-> PlainInst(i)]
        \o <<ITInst(np + 1, cc, mask)>>
        \o [i \in 1..(n + ns) |-> PlainInst(np + 1 + i)]

NoEdit == [kind |-> "none", mi |-> 0, new |-> {}]

NewInsts(S, k) == [i \in 1..k |-> PlainInst(MaxIdOf(S) + i)]

\* the range [firstMI, lastMI) the insertion walks lies inside the block
RangeInBlock(S, p) ==
    LET f == findIT(S, p)
    IN  f.it # 0 => p + (getITBlockSize(S[f.it].mask) - f.distance) <= Len(S)

Init ==
    /\ MBB \in {InitialBlock(np, cc, mask, ns) :
                    np \in 0..MaxPrefix, cc \in Conds,
                    mask \in 1..15, ns \in 0..MaxSuffix}
    /\ preMBB = MBB
    /\ lastEdit = NoEdit
    /\ edits = 0
    /\ prog = <<>>
    /\ ip = 0
    /\ regs = <<>>
    /\ mem = <<>>
    /\ ctx = [kind |-> "editor"]

InsertBefore ==
    /\ edits < MaxEdits
    /\ \E p \in 1..Len(MBB), k \in 1..MaxInsts :
          /\ MBB[p].op # "t2IT"
          /\ RangeInBlock(MBB, p)
          /\ MBB' = insertInstsBefore(MBB, p, NewInsts(MBB, k))
          /\ lastEdit' = [kind |-> "before", mi |-> MBB[p].id,
                          new |-> {MaxIdOf(MBB) + i : i \in 1..k}]
    /\ preMBB' = MBB
    /\ edits' = edits + 1
    /\ UNCHANGED machineVars

InsertAfter ==
    /\ edits < MaxEdits
    /\ \E p \in 1..Len(MBB), k \in 1..MaxInsts :
          /\ MBB[p].op # "t2IT"
          /\ RangeInBlock(MBB, p)
          /\ MBB' = insertInstsAfter(MBB, p, NewInsts(MBB, k))
          /\ lastEdit' = [kind |-> "after", mi |-> MBB[p].id,
                          new |-> {MaxIdOf(MBB) + i : i \in 1..k}]
    /\ preMBB' = MBB
    /\ edits' = edits + 1
    /\ UNCHANGED machineVars

RemoveInst ==
    /\ edits < MaxEdits
    /\ \E p \in 1..Len(MBB) :
          /\ MBB[p].op # "t2IT"
          /\ MBB' = removeInst(MBB, p)
          /\ lastEdit' = [kind |-> "remove", mi |-> MBB[p].id, new |-> {}]
    /\ preMBB' = MBB
    /\ edits' = edits + 1
    /\ UNCHANGED machineVars

Next == InsertBefore \/ InsertAfter \/ RemoveInst

Spec == Init /\ [][Next]_vars

----------------------------------------------------------------------------
(* Governance of a block as the processor applies it: a forward pass over  *)
(* the block in which a header loads the conditions of the instructions    *)
(* that follow it (mask bit 0 = the header's condition, 1 = its opposite)  *)
(* and every instruction consumes one.  Used to state the claims.          *)

HeaderConds(cc, mask) ==
    [j \in 1..getITBlockSize(mask) |->
        IF j = 1 \/ Bit(mask, 5 - j) = 0 THEN cc ELSE getOppositeCondition(cc)]

RECURSIVE Replay(_, _, _)
Replay(S, i, pending) ==
    IF i > Len(S) THEN <<>>
    ELSE IF S[i].op = "t2IT"
         THEN <<[gov |-> pending # <<>>, cc |-> ARMCC_AL, hdr |-> TRUE]>>
              \o Replay(S, i + 1, HeaderConds(S[i].cc, S[i].mask % 16))
         ELSE IF pending = <<>>
              THEN <<[gov |-> FALSE, cc |-> ARMCC_AL, hdr |-> FALSE]>>
                   \o Replay(S, i + 1, <<>>)
              ELSE <<[gov |-> TRUE, cc |-> Head(pending), hdr |-> FALSE]>>
                   \o Replay(S, i + 1, Tail(pending))

Governance(S) == Replay(S, 1, <<>>)

PosOf(S, id) == CHOOSE i \in 1..Len(S) : S[i].id = id

Ids(S) == {S[i].id : i \in 1..Len(S)}

\* the effective condition, per instruction id, of the block S
CondOf(S) ==
    LET G == Governance(S)
    IN  [id \in Ids(S) |-> G[PosOf(S, id)]]

\* the instructions a header governs, given the conditions C of a block
GovernedIn(C) == {id \in DOMAIN C : C[id].gov /\ ~C[id].hdr}

\* the instructions of S that a header governs
GovernedIds(S) == GovernedIn(CondOf(S))

\* no header lies inside the span of another header
NoNestedHeader(C) == \A id \in DOMAIN C : C[id].hdr => ~C[id].gov

HeaderCount(S) == Cardinality({i \in 1..Len(S) : S[i].op = "t2IT"})

LastWasInsertOnGoverned ==
    /\ lastEdit.kind \in {"before", "after"}
    /\ lastEdit.mi \in GovernedIds(preMBB)

\* C1: after insertInstsBefore / insertInstsAfter on a governed MI, replaying
\* the headers now in the block gives every originally governed instruction
\* the effective condition it had before the call and gives every inserted
\* instruction the effective condition of MI.
C1_InsertKeepsConditions ==
    lastEdit.kind \in {"before", "after"} =>
        LET pre == CondOf(preMBB)
            cur == CondOf(MBB)
        IN  lastEdit.mi \in GovernedIn(pre) =>
              /\ NoNestedHeader(cur)
              /\ \A id \in GovernedIn(pre) :
                    /\ id \in GovernedIn(cur)
                    /\ cur[id].cc = pre[id].cc
              /\ \A id \in lastEdit.new :
                    /\ id \in GovernedIn(cur)
                    /\ cur[id].cc = pre[lastEdit.mi].cc

\* C1 witness: new instructions were spliced at a governed MI that runs
\* under the opposite of its header's condition, and the span had to be
\* split over two headers.
C1_Witness ==
    /\ LastWasInsertOnGoverned
    /\ Cardinality(lastEdit.new) >= 2
    /\ HeaderCount(MBB) > HeaderCount(preMBB)
    /\ LET f == findIT(preMBB, PosOf(preMBB, lastEdit.mi))
       IN  /\ f.distance >= 2
           /\ CondOf(preMBB)[lastEdit.mi].cc # preMBB[f.it].cc

LastWasRemoveOnGoverned ==
    /\ lastEdit.kind = "remove"
    /\ lastEdit.mi \in GovernedIds(preMBB)

\* C2: removeInst on a governed MI deletes the header when MI was the only
\* instruction of its block; otherwise the header stays, governs exactly one
\* instruction fewer, and every surviving instruction of the block keeps its
\* effective condition.
C2_RemoveKeepsConditions ==
    lastEdit.kind = "remove" =>
        LET pre == CondOf(preMBB)
            cur == CondOf(MBB)
            p   == PosOf(preMBB, lastEdit.mi)
            f   == findIT(preMBB, p)
            hdr == preMBB[f.it]
            n   == getITBlockSize(hdr.mask)
            blk == {preMBB[f.it + j].id : j \in 1..n} \ {lastEdit.mi}
        IN  lastEdit.mi \in GovernedIn(pre) =>
              /\ lastEdit.mi \notin Ids(MBB)
              /\ IF n = 1
                 THEN hdr.id \notin Ids(MBB)
                 ELSE /\ hdr.id \in Ids(MBB)
                      /\ PosOf(MBB, hdr.id) = f.it
                      /\ MBB[f.it].mask \in 1..15
                      /\ getITBlockSize(MBB[f.it].mask) = n - 1
              /\ \A id \in blk :
                    /\ id \in GovernedIn(cur)
                    /\ cur[id].cc = pre[id].cc
              /\ GovernedIn(cur) = GovernedIn(pre) \ {lastEdit.mi}

\* C2 witness: the first instruction of a block was removed, the next one ran
\* under the opposite condition, and the header's base condition was flipped.
C2_Witness ==
    /\ LastWasRemoveOnGoverned
    /\ LET p == PosOf(preMBB, lastEdit.mi)
           f == findIT(preMBB, p)
       IN  /\ f.distance = 1
           /\ getITBlockSize(preMBB[f.it].mask) >= 3
           /\ preMBB[f.it].id \in Ids(MBB)
           /\ MBB[f.it].cc = getOppositeCondition(preMBB[f.it].cc)

----------------------------------------------------------------------------
(* Well-formedness of a block and the arguments the editing operations     *)
(* hand to the mask codec.                                                 *)

\* every header has a non-zero mask and is followed, inside the block, by
\* getITBlockSize(mask) instructions none of which is a header
WellFormed(S) ==
    \A i \in 1..Len(S) :
        S[i].op = "t2IT" =>
            /\ S[i].mask % 16 # 0
            /\ i + getITBlockSize(S[i].mask % 16) <= Len(S)
            /\ \A j \in 1..getITBlockSize(S[i].mask % 16) :
                  S[i + j].op # "t2IT"

RECURSIVE coverEncodes(_, _)
\* the lists the covering loop of an insertion passes to encodeITMask: one
\* per chunk of at most 4 instructions of the range, negated when its first
\* flag is false
coverEncodes(n, DQMask) ==
    IF n = 0 THEN <<>>
    ELSE LET c     == Min(4, n)
             NewDQ == SubSeq(DQMask, 1, c)
         IN  <<IF NewDQ[1] THEN NewDQ ELSE Negate(NewDQ)>>
             \o coverEncodes(n - c, SubSeq(DQMask, c + 1, Len(DQMask)))

\* the masks an edit (kind, at position p, with k new instructions) passes
\* to decodeITMask
decodeCalls(S, p) ==
    LET f == findIT(S, p)
    IN  IF f.it = 0 THEN <<>> ELSE <<S[f.it].mask % 16>>

\* the lists an edit passes to encodeITMask
encodeCalls(S, kind, p, k) ==
    LET f == findIT(S, p)
    IN  IF f.it = 0 THEN <<>>
        ELSE LET DQMask == decodeITMask(S[f.it].mask % 16)
                 at     == IF kind = "before" THEN f.distance - 1
                           ELSE f.distance
             IN  IF kind = "remove"
                 THEN LET DQ2 == RemoveAt(DQMask, f.distance)
                      IN  IF DQ2 = <<>> THEN <<>>
                          ELSE <<IF DQ2[1] THEN DQ2 ELSE Negate(DQ2)>>
                 ELSE coverEncodes(
                          getITBlockSize(S[f.it].mask) + k,
                          SubSeq(DQMask, 1, at)
                          \o [i \in 1..k |-> DQMask[f.distance]]
                          \o SubSeq(DQMask, at + 1, Len(DQMask)))

\* the assertions of decodeITMask and encodeITMask
decodeAsserts(Mask) == Mask # 0

encodeAsserts(DQMask) ==
    /\ DQMask # <<>>
    /\ Len(DQMask) <= 4
    /\ DQMask[1]

\* no codec assertion fails in the last edit
LastEditAsserts ==
    lastEdit.kind # "none" =>
        LET p == PosOf(preMBB, lastEdit.mi)
            D == decodeCalls(preMBB, p)
            E == encodeCalls(preMBB, lastEdit.kind, p,
                             Cardinality(lastEdit.new))
        IN  /\ \A i \in 1..Len(D) : decodeAsserts(D[i])
            /\ \A i \in 1..Len(E) : encodeAsserts(E[i])

\* C23: every block the editor reaches from a well-formed block by insertions
\* of non-empty lists and removals at non-header instructions is well formed
\* (non-zero masks, each header followed by as many non-header instructions
\* as its mask covers, no header inside the span of another), no edit fails
\* an assertion of the mask codec, and the only instructions an edit makes
\* governed are those it inserts at a governed instruction.
C23_EditorKeepsWellFormed ==
    ctx.kind = "editor" =>
        /\ WellFormed(MBB)
        /\ NoNestedHeader(CondOf(MBB))
        /\ LastEditAsserts
        /\ lastEdit.kind # "none" =>
              GovernedIds(MBB) \subseteq
                  GovernedIds(preMBB) \cup
                  (IF lastEdit.mi \in GovernedIds(preMBB)
                   THEN lastEdit.new ELSE {})

\* C23 witness: after an insertion split a block over two headers, a second
\* edit removed a governed instruction of the block that now has two headers
C23_Witness ==
    /\ edits = 2
    /\ LastWasRemoveOnGoverned
    /\ HeaderCount(preMBB) >= 2
    /\ HeaderCount(MBB) >= 1
    /\ Len(encodeCalls(preMBB, "remove", PosOf(preMBB, lastEdit.mi), 0)) = 1

\* C23 witness: instructions were inserted before the ungoverned instruction
\* that follows the last instruction of a block, and stay ungoverned
C23_InsertBehindBlock ==
    /\ lastEdit.kind = "before"
    /\ lastEdit.mi \notin GovernedIds(preMBB)
    /\ LET p == PosOf(preMBB, lastEdit.mi)
       IN  /\ p > 1
           /\ preMBB[p - 1].id \in GovernedIds(preMBB)
    /\ lastEdit.new \cap GovernedIds(MBB) = {}

----------------------------------------------------------------------------
(* The processor on which emitted code runs: 32-bit registers held as      *)
(* two's-complement integers, byte-addressed memory, and the instructions  *)
(* the passes read and build.                                              *)

MaxInt32 == (2 ^ 30 - 1) + 2 ^ 30
MinInt32 == (-MaxInt32) - 1

\* 32-bit wrapping addition and subtraction
AddW(a, b) ==
    IF a >= 0 /\ b >= 0 /\ b > MaxInt32 - a THEN (a + MinInt32) + (b + MinInt32)
    ELSE IF a < 0 /\ b < 0 /\ b < MinInt32 - a THEN (a - MinInt32) + (b - MinInt32)
    ELSE a + b
NegW(a) == IF a = MinInt32 THEN MinInt32 ELSE -a
SubW(a, b) == IF b = MinInt32 THEN AddW(AddW(a, MaxInt32), 1) ELSE AddW(a, -b)

\* logical shift left by n bits
RECURSIVE LslW(_, _)
LslW(a, n) == IF n = 0 THEN a ELSE LslW(AddW(a, a), n - 1)

\* the core registers, and the index under which the Z flag is kept
R0 == 0
R1 == 1
R2 == 2
R3 == 3
R4 == 4
R5 == 5
R8 == 8
R12 == 12
SP == 13
LR == 14
PC == 15
CPSR == 16
NoRegister == 99

\* a machine instruction: opcode, predicate, register operands, immediate
\* operand (as the MachineInstr holds it) and register list
MInst(op, cc, rt, rn, rm, imm, list) ==
    [op |-> op, cc |-> cc, rt |-> rt, rn |-> rn, rm |-> rm, imm |-> imm,
     list |-> list]

\* byte i of a word, and the word made of four bytes
ByteOf(v, i) == (v \div (256 ^ i)) % 256
WordOf(b0, b1, b2, b3) ==
    b0 + 256 * b1 + 65536 * b2
       + (IF b3 >= 128 THEN ((b3 - 256) * 16777216) ELSE b3 * 16777216)

\* memory never written reads as zero
Load8(M, a) == IF a \in DOMAIN M THEN M[a] ELSE 0
Load16(M, a) == Load8(M, a) + 256 * Load8(M, AddW(a, 1))
Load32(M, a) ==
    WordOf(Load8(M, a), Load8(M, AddW(a, 1)),
           Load8(M, AddW(a, 2)), Load8(M, AddW(a, 3)))

\* store the low w bytes of v at address a
StoreN(M, a, w, v) ==
    LET at == [i \in 0..(w - 1) |-> AddW(a, i)]
        W  == {at[i] : i \in 0..(w - 1)}
    IN  [x \in DOMAIN M \cup W |->
            IF x \in W THEN ByteOf(v, CHOOSE i \in 0..(w - 1) : at[i] = x)
            ELSE M[x]]

\* store the registers of a list at consecutive words from address a
RECURSIVE StoreList(_, _, _, _)
StoreList(M, Rg, a, list) ==
    IF list = <<>> THEN M
    ELSE StoreList(StoreN(M, a, 4, Rg[Head(list)]), Rg, AddW(a, 4), Tail(list))

\* load the registers of a list from consecutive words from address a
RECURSIVE LoadList(_, _, _, _)
LoadList(Rg, M, a, list) ==
    IF list = <<>> THEN Rg
    ELSE LoadList([Rg EXCEPT ![Head(list)] = Load32(M, a)], M, AddW(a, 4),
                  Tail(list))

St(Rg, M) == [regs |-> Rg, mem |-> M]

\* the shifter operand of t2ADDrs / t2SUBrs: shift kind in the low three
\* bits, amount above them
getSORegOpc_lsl(Imm) == 2 + 8 * Imm
getSORegOffset(Op) == Op \div 8

\* does the predicate CC pass under the flags of Rg
CondPassed(Rg, CC) ==
    CASE CC = ARMCC_AL -> TRUE
      [] CC = ARMCC_NE -> Rg[CPSR] = 0
      [] OTHER -> Rg[CPSR] = 1

StoreOps == {"tSTRi", "tSTRspi", "t2STRi12", "t2STRi8", "t2STRT",
             "tSTRHi", "t2STRHi12", "t2STRHi8", "t2STRHT",
             "tSTRBi", "t2STRBi12", "t2STRBi8", "t2STRBT"}

\* bytes written by an immediate-offset store
WidthOf(op) ==
    IF op \in {"tSTRHi", "t2STRHi12", "t2STRHi8", "t2STRHT"} THEN 2
    ELSE IF op \in {"tSTRBi", "t2STRBi12", "t2STRBi8", "t2STRBT"} THEN 1
    ELSE 4

\* the byte offset an immediate-offset store applies to its base
OffsetOf(I) ==
    CASE I.op \in {"tSTRi", "tSTRspi"} -> 4 * I.imm
      [] I.op = "tSTRHi" -> 2 * I.imm
      [] OTHER -> I.imm

\* bitwise and / or of two 32-bit two's-complement words
RECURSIVE AndW(_, _)
AndW(a, b) ==
    IF a = 0 \/ b = 0 THEN 0
    ELSE IF a = -1 THEN b
    ELSE IF b = -1 THEN a
    ELSE 2 * AndW(a \div 2, b \div 2) + (a % 2) * (b % 2)
OrW(a, b) == (a + b) - AndW(a, b)

NotW(a) == (-a) - 1

\* the offset operand of a floating-point store (addressing mode 5): the
\* word offset in the low eight bits, the direction above them
getAM5Opc(Opc, Offset) == (IF Opc = "sub" THEN 256 ELSE 0) + Offset
getAM5Offset(AM5Opc) == AM5Opc % 256
getAM5Op(AM5Opc) == IF (AM5Opc \div 256) % 2 = 1 THEN "sub" ELSE "add"

\* floating-point registers: a double-word register is the index of its low
\* word, its high word is the next index
D0 == 32
D1 == 34

\* the words of a list of double-word registers, in the order stored
RECURSIVE DWords(_)
DWords(list) ==
    IF list = <<>> THEN <<>>
    ELSE <<Head(list), Head(list) + 1>> \o DWords(Tail(list))

\* the effect of one instruction whose predicate passed
ExecOp(Rg, M, I) ==
    CASE I.op \in StoreOps ->
            St(Rg, StoreN(M, AddW(Rg[I.rn], OffsetOf(I)), WidthOf(I.op), Rg[I.rt]))
      [] I.op \in {"t2STR_PRE", "t2STRH_PRE", "t2STRB_PRE"} ->
            LET a == AddW(Rg[I.rn], I.imm)
                w == CASE I.op = "t2STR_PRE" -> 4 [] I.op = "t2STRH_PRE" -> 2
                       [] OTHER -> 1
            IN  St([Rg EXCEPT ![I.rn] = a], StoreN(M, a, w, Rg[I.rt]))
      [] I.op \in {"t2STR_POST", "t2STRH_POST", "t2STRB_POST"} ->
            LET w == CASE I.op = "t2STR_POST" -> 4 [] I.op = "t2STRH_POST" -> 2
                       [] OTHER -> 1
            IN  St([Rg EXCEPT ![I.rn] = AddW(Rg[I.rn], I.imm)],
                   StoreN(M, Rg[I.rn], w, Rg[I.rt]))
      [] I.op = "tSTRr" ->
            St(Rg, StoreN(M, AddW(Rg[I.rn], Rg[I.rm]), 4, Rg[I.rt]))
      [] I.op = "t2STRs" ->
            St(Rg, StoreN(M, AddW(Rg[I.rn], LslW(Rg[I.rm], I.imm)), 4, Rg[I.rt]))
      [] I.op = "t2STRDi8" ->
            LET a == AddW(Rg[I.rn], I.imm)
            IN  St(Rg, StoreN(StoreN(M, a, 4, Rg[I.rt]), AddW(a, 4), 4, Rg[I.rm]))
      [] I.op \in {"tPUSH", "t2STMDB_UPD"} ->
            LET a == SubW(Rg[I.rn], 4 * Len(I.list))
            IN  St([Rg EXCEPT ![I.rn] = a], StoreList(M, Rg, a, I.list))
      [] I.op \in {"tPOP", "t2LDMIA_UPD", "tPOP_RET", "t2LDMIA_RET"} ->
            LET a == Rg[I.rn]
                L == LoadList(Rg, M, a, I.list)
            IN  St([L EXCEPT ![I.rn] = AddW(a, 4 * Len(I.list))], M)
      [] I.op = "t2STRD_PRE" ->
            LET a == AddW(Rg[I.rn], I.imm)
            IN  St([Rg EXCEPT ![I.rn] = a],
                   StoreN(StoreN(M, a, 4, Rg[I.rt]), AddW(a, 4), 4, Rg[I.rm]))
      [] I.op = "t2STRD_POST" ->
            LET a == Rg[I.rn]
            IN  St([Rg EXCEPT ![I.rn] = AddW(a, I.imm)],
                   StoreN(StoreN(M, a, 4, Rg[I.rt]), AddW(a, 4), 4, Rg[I.rm]))
      [] I.op \in {"tSTMIA_UPD", "t2STMIA_UPD"} ->
            St([Rg EXCEPT ![I.rn] = AddW(Rg[I.rn], 4 * Len(I.list))],
               StoreList(M, Rg, Rg[I.rn], I.list))
      [] I.op = "t2STMIA" -> St(Rg, StoreList(M, Rg, Rg[I.rn], I.list))
      [] I.op = "t2STMDB" ->
            St(Rg, StoreList(M, Rg, SubW(Rg[I.rn], 4 * Len(I.list)), I.list))
      [] I.op \in {"VSTRD", "VSTRS"} ->
            LET off == 4 * getAM5Offset(I.imm)
                a   == IF getAM5Op(I.imm) = "sub" THEN SubW(Rg[I.rn], off)
                       ELSE AddW(Rg[I.rn], off)
            IN  St(Rg, StoreList(M, Rg, a, IF I.op = "VSTRD" THEN DWords(<<I.rt>>)
                                           ELSE <<I.rt>>))
      [] I.op \in {"VSTMDIA", "VSTMDIA_UPD"} ->
            St([Rg EXCEPT ![I.rn] = IF I.op = "VSTMDIA" THEN @
                                    ELSE AddW(@, 8 * Len(I.list))],
               StoreList(M, Rg, Rg[I.rn], DWords(I.list)))
      [] I.op = "VSTMDDB_UPD" ->
            LET a == SubW(Rg[I.rn], 8 * Len(I.list))
            IN  St([Rg EXCEPT ![I.rn] = a], StoreList(M, Rg, a, DWords(I.list)))
      [] I.op = "VSTMSIA" -> St(Rg, StoreList(M, Rg, Rg[I.rn], I.list))
      [] I.op = "VSTMSIA_UPD" ->
            St([Rg EXCEPT ![I.rn] = AddW(Rg[I.rn], 4 * Len(I.list))],
               StoreList(M, Rg, Rg[I.rn], I.list))
      [] I.op = "VSTMSDB_UPD" ->
            LET a == SubW(Rg[I.rn], 4 * Len(I.list))
            IN  St([Rg EXCEPT ![I.rn] = a], StoreList(M, Rg, a, I.list))
      [] I.op = "VMOVRRD" ->
            St([Rg EXCEPT ![I.rt] = Rg[I.rn], ![I.rm] = Rg[I.rn + 1]], M)
      [] I.op = "VMOVRS" -> St([Rg EXCEPT ![I.rt] = Rg[I.rn]], M)
      [] I.op = "t2BICri" ->
            St([Rg EXCEPT ![I.rt] = AndW(Rg[I.rn], NotW(I.imm))], M)
      [] I.op = "t2LDRHi12" ->
            St([Rg EXCEPT ![I.rt] = Load16(M, AddW(Rg[I.rn], I.imm))], M)
      [] I.op = "t2CMPri" ->
            St([Rg EXCEPT ![CPSR] = IF Rg[I.rn] = I.imm THEN 1 ELSE 0], M)
      [] I.op = "t2BFC" ->
            St([Rg EXCEPT ![I.rt] = AndW(Rg[I.rn], I.imm)], M)
      [] I.op = "t2ORRri" ->
            St([Rg EXCEPT ![I.rt] = OrW(Rg[I.rn], I.imm)], M)
      [] I.op = "t2LDRi12" ->
            St([Rg EXCEPT ![I.rt] = Load32(M, AddW(Rg[I.rn], I.imm))], M)
      [] I.op = "t2ADDri12" ->
            St([Rg EXCEPT ![I.rt] = AddW(Rg[I.rn], I.imm)], M)
      [] I.op = "t2SUBri12" ->
            St([Rg EXCEPT ![I.rt] = SubW(Rg[I.rn], I.imm)], M)
      [] I.op = "tADDspi" ->
            St([Rg EXCEPT ![I.rt] = AddW(Rg[I.rn], 4 * I.imm)], M)
      [] I.op = "tSUBspi" ->
            St([Rg EXCEPT ![I.rt] = SubW(Rg[I.rn], 4 * I.imm)], M)
      [] I.op = "t2ADDrr" ->
            St([Rg EXCEPT ![I.rt] = AddW(Rg[I.rn], Rg[I.rm])], M)
      [] I.op = "t2SUBrr" ->
            St([Rg EXCEPT ![I.rt] = SubW(Rg[I.rn], Rg[I.rm])], M)
      [] I.op = "t2ADDrs" ->
            St([Rg EXCEPT ![I.rt] =
                   AddW(Rg[I.rn], LslW(Rg[I.rm], getSORegOffset(I.imm)))], M)
      [] I.op = "t2SUBrs" ->
            St([Rg EXCEPT ![I.rt] =
                   SubW(Rg[I.rn], LslW(Rg[I.rm], getSORegOffset(I.imm)))], M)
      [] OTHER -> St(Rg, M)

\* the effect of one instruction
Exec(Rg, M, I) == IF CondPassed(Rg, I.cc) THEN ExecOp(Rg, M, I) ELSE St(Rg, M)

\* the effect of running a whole sequence without interruption
RECURSIVE Run(_, _, _)
Run(Rg, M, P) ==
    IF P = <<>> THEN St(Rg, M)
    ELSE LET s1 == Exec(Rg, M, Head(P)) IN Run(s1.regs, s1.mem, Tail(P))

----------------------------------------------------------------------------
(* ARMSilhouetteSTR2STRT: every store becomes a sequence built on          *)
(* unprivileged stores.                                                    *)

\* an unprivileged store as the pass builds it, without predicate operands
BuildStore(strOpc, SrcReg, BaseReg, Imm) ==
    MInst(strOpc, ARMCC_AL, SrcReg, BaseReg, NoRegister, Imm, <<>>)

\* addImmediateToRegister(MI, Reg, Imm, Insts): the instruction appended
addImmediateToRegister(MI, Reg, Imm) ==
    LET small  == Reg = SP /\ Imm > -512 /\ Imm < 512
        addOpc == IF small THEN (IF Imm < 0 THEN "tSUBspi" ELSE "tADDspi")
                  ELSE (IF Imm < 0 THEN "t2SUBri12" ELSE "t2ADDri12")
        Imm1   == IF small THEN Imm \div 4 ELSE Imm
    IN  <<MInst(addOpc, MI.cc, Reg, Reg, NoRegister,
                IF Imm1 < 0 THEN -Imm1 ELSE Imm1, <<>>)>>

\* subtractImmediateFromRegister(MI, Reg, Imm, Insts)
subtractImmediateFromRegister(MI, Reg, Imm) == addImmediateToRegister(MI, Reg, -Imm)

\* backupRegisters(MI, Reg1, Reg2, Insts): the instructions appended
backupRegisters(MI, Reg1, Reg2) ==
    LET numRegs == (IF Reg1 # NoRegister THEN 1 ELSE 0)
                   + (IF Reg2 # NoRegister THEN 1 ELSE 0)
    IN  IF numRegs = 0 THEN <<>>
        ELSE <<MInst("tSUBspi", MI.cc, SP, SP, NoRegister, numRegs, <<>>)>>
             \o (IF Reg1 # NoRegister THEN <<BuildStore("t2STRT", Reg1, SP, 0)>>
                 ELSE <<>>)
             \o (IF Reg2 # NoRegister
                 THEN <<BuildStore("t2STRT", Reg2, SP,
                                   IF Reg1 # NoRegister THEN 4 ELSE 0)>>
                 ELSE <<>>)

\* restoreRegisters(MI, Reg1, Reg2, Insts): the instructions appended
restoreRegisters(MI, Reg1, Reg2) ==
    IF Reg1 = NoRegister /\ Reg2 = NoRegister THEN <<>>
    ELSE <<MInst("tPOP", MI.cc, NoRegister, SP, NoRegister, 0,
                 (IF Reg1 # NoRegister THEN <<Reg1>> ELSE <<>>)
                 \o (IF Reg2 # NoRegister THEN <<Reg2>> ELSE <<>>))>>

\* the first register of FreeRegs outside excl, or NoRegister
FirstFree(FreeRegs, excl) ==
    LET ok == {j \in 1..Len(FreeRegs) : FreeRegs[j] \notin excl}
    IN  IF ok = {} THEN NoRegister
        ELSE FreeRegs[CHOOSE j \in ok : \A k \in ok : j <= k]

\* while (ScratchReg == SrcReg || ScratchReg == SrcReg2) ScratchReg++
RECURSIVE SpillFrom(_, _)
SpillFrom(Reg, excl) == IF Reg \in excl THEN SpillFrom(Reg + 1, excl) ELSE Reg

\* handleSPWithUncommonImm(MI, SrcReg, Imm, strOpc, Insts, FreeRegs, SrcReg2)
handleSPWithUncommonImm(MI, SrcReg, Imm, strOpc, FreeRegs, SrcReg2) ==
    LET free       == FirstFree(FreeRegs, {SrcReg, SrcReg2})
        needSpill  == free = NoRegister
        ScratchReg == IF needSpill THEN SpillFrom(R4, {SrcReg, SrcReg2}) ELSE free
        Imm1       == IF needSpill THEN Imm + 4 ELSE Imm
        addOpc     == IF Imm1 < 0 THEN "t2SUBri12" ELSE "t2ADDri12"
    IN  (IF needSpill THEN backupRegisters(MI, ScratchReg, NoRegister) ELSE <<>>)
        \o <<MInst(addOpc, MI.cc, ScratchReg, SP, NoRegister,
                   IF Imm1 < 0 THEN -Imm1 ELSE Imm1, <<>>)>>
        \o <<BuildStore(strOpc, SrcReg, ScratchReg, 0)>>
        \o (IF SrcReg2 # NoRegister
            THEN <<BuildStore(strOpc, SrcReg2, ScratchReg, 4)>> ELSE <<>>)
        \o (IF needSpill THEN restoreRegisters(MI, ScratchReg, NoRegister) ELSE <<>>)

\* handleSPWithOffsetReg(MI, SrcReg, OffsetReg, ShiftImm, strOpc, Insts, FreeRegs)
handleSPWithOffsetReg(MI, SrcReg, OffsetReg, ShiftImm, strOpc, FreeRegs) ==
    LET free       == FirstFree(FreeRegs, {SrcReg, OffsetReg})
        needSpill  == free = NoRegister
        ScratchReg == IF needSpill THEN SpillFrom(R0, {SrcReg, OffsetReg}) ELSE free
    IN  (IF needSpill THEN backupRegisters(MI, ScratchReg, NoRegister) ELSE <<>>)
        \o (IF ShiftImm > 0
            THEN <<MInst("t2ADDrs", MI.cc, ScratchReg, SP, OffsetReg, ShiftImm, <<>>)>>
            ELSE <<MInst("t2ADDrr", MI.cc, ScratchReg, SP, OffsetReg, 0, <<>>)>>)
        \o (IF needSpill
            THEN <<MInst("t2ADDri12", MI.cc, ScratchReg, ScratchReg, NoRegister,
                         4, <<>>)>>
            ELSE <<>>)
        \o <<BuildStore(strOpc, SrcReg, ScratchReg, 0)>>
        \o (IF needSpill THEN restoreRegisters(MI, ScratchReg, NoRegister) ELSE <<>>)

\* the unprivileged store opcode each case of the switch builds
strOpcOf(op) ==
    IF WidthOf(op) = 2 \/ op \in {"t2STRH_PRE", "t2STRH_POST"} THEN "t2STRHT"
    ELSE IF WidthOf(op) = 1 \/ op \in {"t2STRB_PRE", "t2STRB_POST"} THEN "t2STRBT"
    ELSE "t2STRT"

\* case tSTRi, tSTRHi, tSTRBi
rewriteImm5(MI) ==
    <<BuildStore(strOpcOf(MI.op), MI.rt, MI.rn, OffsetOf(MI))>>

\* case tSTRspi
rewriteSpi(MI, FreeRegs) ==
    LET Imm == 4 * MI.imm
    IN  IF Imm > 255
        THEN handleSPWithUncommonImm(MI, MI.rt, Imm, "t2STRT", FreeRegs, NoRegister)
        ELSE <<BuildStore("t2STRT", MI.rt, MI.rn, Imm)>>

\* the 12-bit immediate case without the special handling of SP
rewriteImm12NoSP(MI, FreeRegs) ==
    LET Imm == MI.imm
    IN  (IF Imm > 255 THEN addImmediateToRegister(MI, MI.rn, Imm) ELSE <<>>)
        \o <<BuildStore(strOpcOf(MI.op), MI.rt, MI.rn, IF Imm > 255 THEN 0 ELSE Imm)>>
        \o (IF Imm > 255 THEN subtractImmediateFromRegister(MI, MI.rn, Imm) ELSE <<>>)

\* case t2STRi12, t2STRHi12, t2STRBi12
rewriteImm12(MI, FreeRegs) ==
    LET Imm == MI.imm
    IN  IF MI.rn = SP /\ Imm > 255
        THEN handleSPWithUncommonImm(MI, MI.rt, Imm, strOpcOf(MI.op), FreeRegs,
                                     NoRegister)
        ELSE (IF Imm > 255 THEN addImmediateToRegister(MI, MI.rn, Imm) ELSE <<>>)
             \o <<BuildStore(strOpcOf(MI.op), MI.rt, MI.rn,
                             IF Imm > 255 THEN 0 ELSE Imm)>>
             \o (IF Imm > 255 THEN subtractImmediateFromRegister(MI, MI.rn, Imm)
                 ELSE <<>>)

\* case t2STRi8, t2STRHi8, t2STRBi8
rewriteImm8(MI, FreeRegs) ==
    LET Imm == MI.imm
    IN  IF MI.rn = SP /\ Imm % 4 # 0
        THEN handleSPWithUncommonImm(MI, MI.rt, Imm, strOpcOf(MI.op), FreeRegs,
                                     NoRegister)
        ELSE (IF Imm # -256 THEN addImmediateToRegister(MI, MI.rn, Imm) ELSE <<>>)
             \o <<BuildStore(strOpcOf(MI.op), MI.rt, MI.rn, 0)>>
             \o (IF Imm # -256 THEN subtractImmediateFromRegister(MI, MI.rn, Imm)
                 ELSE <<>>)

\* case t2STR_PRE, t2STRH_PRE, t2STRB_PRE
rewritePre(MI, FreeRegs) ==
    IF MI.rn = SP /\ MI.imm > 0
    THEN handleSPWithUncommonImm(MI, MI.rt, MI.imm, strOpcOf(MI.op), FreeRegs,
                                 NoRegister)
         \o addImmediateToRegister(MI, MI.rn, MI.imm)
    ELSE addImmediateToRegister(MI, MI.rn, MI.imm)
         \o <<BuildStore(strOpcOf(MI.op), MI.rt, MI.rn, 0)>>

\* case t2STR_POST, t2STRH_POST, t2STRB_POST
rewritePost(MI) ==
    <<BuildStore(strOpcOf(MI.op), MI.rt, MI.rn, 0)>>
    \o addImmediateToRegister(MI, MI.rn, MI.imm)

\* case tSTRr (ShiftImm = 0) and t2STRs (ShiftImm = getSORegOpc(lsl, imm))
rewriteRegOffset(MI, FreeRegs) ==
    LET Imm == IF MI.op = "t2STRs" THEN getSORegOpc_lsl(MI.imm) ELSE 0
        add == IF MI.op = "t2STRs" THEN "t2ADDrs" ELSE "t2ADDrr"
        sub == IF MI.op = "t2STRs" THEN "t2SUBrs" ELSE "t2SUBrr"
    IN  IF MI.rn = SP
        THEN handleSPWithOffsetReg(MI, MI.rt, MI.rm, Imm, "t2STRT", FreeRegs)
        ELSE <<MInst(add, MI.cc, MI.rn, MI.rn, MI.rm, Imm, <<>>),
               BuildStore("t2STRT", MI.rt, MI.rn, 0),
               MInst(sub, MI.cc, MI.rn, MI.rn, MI.rm, Imm, <<>>)>>

\* case t2STRDi8 (the second source register is held in rm)
rewriteDual(MI, FreeRegs) ==
    LET Imm  == MI.imm
        far  == Imm < 0 \/ Imm > 251
        Imm2 == IF far THEN 0 ELSE Imm
    IN  IF MI.rn = SP /\ Imm > 251
        THEN handleSPWithUncommonImm(MI, MI.rt, Imm, "t2STRT", FreeRegs, MI.rm)
        ELSE (IF far THEN addImmediateToRegister(MI, MI.rn, Imm) ELSE <<>>)
             \o <<BuildStore("t2STRT", MI.rt, MI.rn, Imm2),
                  BuildStore("t2STRT", MI.rm, MI.rn, Imm2 + 4)>>
             \o (IF far THEN subtractImmediateFromRegister(MI, MI.rn, Imm) ELSE <<>>)

\* case tPUSH
rewritePush(MI) ==
    subtractImmediateFromRegister(MI, SP, 4 * Len(MI.list))
    \o [j \in 1..Len(MI.list) |-> BuildStore("t2STRT", MI.list[j], SP, 4 * (j - 1))]

\* "Build an STRT for each register in the list"
storeEach(RegList, BaseReg) ==
    [j \in 1..Len(RegList) |-> BuildStore("t2STRT", RegList[j], BaseReg, 4 * (j - 1))]

\* cases tSTMIA_UPD, t2STMIA_UPD, t2STMIA, t2STMDB, t2STMDB_UPD
rewriteMulti(MI) ==
    LET n == 4 * Len(MI.list)
    IN  CASE MI.op \in {"tSTMIA_UPD", "t2STMIA_UPD"} ->
                storeEach(MI.list, MI.rn) \o addImmediateToRegister(MI, MI.rn, n)
          [] MI.op = "t2STMIA" -> storeEach(MI.list, MI.rn)
          [] MI.op = "t2STMDB" ->
                subtractImmediateFromRegister(MI, MI.rn, n)
                \o storeEach(MI.list, MI.rn)
                \o addImmediateToRegister(MI, MI.rn, n)
          [] MI.op = "t2STMDB_UPD" ->
                subtractImmediateFromRegister(MI, MI.rn, n)
                \o storeEach(MI.list, MI.rn)

\* the core registers spilled as scratch registers of a floating-point store
SpillScratch(BaseReg) == IF BaseReg = R0 THEN R1 ELSE R0
SpillScratch2(BaseReg) == IF BaseReg = R2 THEN R3 ELSE R2

\* the signed byte offset of a floating-point store
AM5Imm(MI) ==
    IF getAM5Op(MI.imm) = "sub" THEN -(4 * getAM5Offset(MI.imm))
    ELSE 4 * getAM5Offset(MI.imm)

\* case VSTRD
rewriteVSTRD(MI, FreeRegs) ==
    LET spill       == Len(FreeRegs) < 2
        Imm         == IF spill /\ MI.rn = SP THEN AM5Imm(MI) + 8 ELSE AM5Imm(MI)
        ScratchReg  == IF spill THEN SpillScratch(MI.rn) ELSE FreeRegs[1]
        ScratchReg2 == IF spill THEN SpillScratch2(MI.rn) ELSE FreeRegs[2]
        far         == Imm < 0 \/ Imm > 251
        Imm2        == IF far THEN 0 ELSE Imm
    IN  (IF spill THEN backupRegisters(MI, ScratchReg, ScratchReg2) ELSE <<>>)
        \o <<MInst("VMOVRRD", MI.cc, ScratchReg, MI.rt, ScratchReg2, 0, <<>>)>>
        \o (IF MI.rn = SP /\ Imm > 251
            THEN handleSPWithUncommonImm(MI, ScratchReg, Imm, "t2STRT", FreeRegs,
                                         ScratchReg2)
            ELSE (IF far THEN addImmediateToRegister(MI, MI.rn, Imm) ELSE <<>>)
                 \o <<BuildStore("t2STRT", ScratchReg, MI.rn, Imm2),
                      BuildStore("t2STRT", ScratchReg2, MI.rn, Imm2 + 4)>>
                 \o (IF far THEN subtractImmediateFromRegister(MI, MI.rn, Imm)
                     ELSE <<>>))
        \o (IF spill THEN restoreRegisters(MI, ScratchReg, ScratchReg2) ELSE <<>>)

\* case VSTRS
rewriteVSTRS(MI, FreeRegs) ==
    LET spill      == FreeRegs = <<>>
        Imm        == IF spill /\ MI.rn = SP THEN AM5Imm(MI) + 4 ELSE AM5Imm(MI)
        ScratchReg == IF spill THEN SpillScratch(MI.rn) ELSE FreeRegs[1]
        far        == Imm < 0 \/ Imm > 255
    IN  (IF spill THEN backupRegisters(MI, ScratchReg, NoRegister) ELSE <<>>)
        \o <<MInst("VMOVRS", MI.cc, ScratchReg, MI.rt, NoRegister, 0, <<>>)>>
        \o (IF MI.rn = SP /\ Imm > 255
            THEN handleSPWithUncommonImm(MI, ScratchReg, Imm, "t2STRT", FreeRegs,
                                         NoRegister)
            ELSE (IF far THEN addImmediateToRegister(MI, MI.rn, Imm) ELSE <<>>)
                 \o <<BuildStore("t2STRT", ScratchReg, MI.rn, IF far THEN 0 ELSE Imm)>>
                 \o (IF far THEN subtractImmediateFromRegister(MI, MI.rn, Imm)
                     ELSE <<>>))
        \o (IF spill THEN restoreRegisters(MI, ScratchReg, NoRegister) ELSE <<>>)

RECURSIVE Concat(_)
Concat(SS) == IF SS = <<>> THEN <<>> ELSE Head(SS) \o Concat(Tail(SS))

\* cases VSTMDIA, VSTMDIA_UPD, VSTMDDB_UPD
rewriteVSTMD(MI, FreeRegs) ==
    LET n           == Len(MI.list)
        spill       == Len(FreeRegs) < 2
        ScratchReg  == IF spill THEN SpillScratch(MI.rn) ELSE FreeRegs[1]
        ScratchReg2 == IF spill THEN SpillScratch2(MI.rn) ELSE FreeRegs[2]
        ImmAt(i)    == 8 * i + (IF MI.rn = SP /\ spill THEN 8 ELSE 0)
    IN  (IF MI.op = "VSTMDDB_UPD"
         THEN subtractImmediateFromRegister(MI, MI.rn, 8 * n) ELSE <<>>)
        \o (IF spill THEN backupRegisters(MI, ScratchReg, ScratchReg2) ELSE <<>>)
        \o Concat([j \in 1..n |->
               <<MInst("VMOVRRD", MI.cc, ScratchReg, MI.list[j], ScratchReg2, 0, <<>>),
                 BuildStore("t2STRT", ScratchReg, MI.rn, ImmAt(j - 1)),
                 BuildStore("t2STRT", ScratchReg2, MI.rn, ImmAt(j - 1) + 4)>>])
        \o (IF spill THEN restoreRegisters(MI, ScratchReg, ScratchReg2) ELSE <<>>)
        \o (IF MI.op = "VSTMDIA_UPD"
            THEN addImmediateToRegister(MI, MI.rn, 8 * n) ELSE <<>>)

\* cases VSTMSIA, VSTMSIA_UPD, VSTMSDB_UPD
rewriteVSTMS(MI, FreeRegs) ==
    LET n          == Len(MI.list)
        spill      == FreeRegs = <<>>
        ScratchReg == IF spill THEN SpillScratch(MI.rn) ELSE FreeRegs[1]
        ImmAt(i)   == 4 * i + (IF MI.rn = SP /\ spill THEN 4 ELSE 0)
    IN  (IF MI.op = "VSTMSDB_UPD"
         THEN subtractImmediateFromRegister(MI, MI.rn, 4 * n) ELSE <<>>)
        \o (IF spill THEN backupRegisters(MI, ScratchReg, NoRegister) ELSE <<>>)
        \o Concat([j \in 1..n |->
               <<MInst("VMOVRS", MI.cc, ScratchReg, MI.list[j], NoRegister, 0, <<>>),
                 BuildStore("t2STRT", ScratchReg, MI.rn, ImmAt(j - 1))>>])
        \o (IF spill THEN restoreRegisters(MI, ScratchReg, NoRegister) ELSE <<>>)
        \o (IF MI.op = "VSTMSIA_UPD"
            THEN addImmediateToRegister(MI, MI.rn, 4 * n) ELSE <<>>)

\* the switch of runOnMachineFunction: the new instructions for store MI
NewInstsFor(MI, FreeRegs) ==
    CASE MI.op \in {"tSTRi", "tSTRHi", "tSTRBi"} -> rewriteImm5(MI)
      [] MI.op = "tSTRspi" -> rewriteSpi(MI, FreeRegs)
      [] MI.op \in {"t2STRi12", "t2STRHi12", "t2STRBi12"} -> rewriteImm12(MI, FreeRegs)
      [] MI.op \in {"t2STRi8", "t2STRHi8", "t2STRBi8"} -> rewriteImm8(MI, FreeRegs)
      [] MI.op \in {"t2STR_PRE", "t2STRH_PRE", "t2STRB_PRE"} -> rewritePre(MI, FreeRegs)
      [] MI.op \in {"t2STR_POST", "t2STRH_POST", "t2STRB_POST"} -> rewritePost(MI)
      [] MI.op \in {"tSTRr", "t2STRs"} -> rewriteRegOffset(MI, FreeRegs)
      [] MI.op = "t2STRDi8" -> rewriteDual(MI, FreeRegs)
      [] MI.op = "tPUSH" -> rewritePush(MI)
      [] MI.op \in {"tSTMIA_UPD", "t2STMIA_UPD", "t2STMIA", "t2STMDB",
                    "t2STMDB_UPD"} -> rewriteMulti(MI)
      [] MI.op = "VSTRD" -> rewriteVSTRD(MI, FreeRegs)
      [] MI.op = "VSTRS" -> rewriteVSTRS(MI, FreeRegs)
      [] MI.op \in {"VSTMDIA", "VSTMDIA_UPD", "VSTMDDB_UPD"} ->
            rewriteVSTMD(MI, FreeRegs)
      [] MI.op \in {"VSTMSIA", "VSTMSIA_UPD", "VSTMSDB_UPD"} ->
            rewriteVSTMS(MI, FreeRegs)

\* insertInstsBefore(MI, NewInsts); removeInst(MI) on the block holding MI
rewriteStore(Block, p, FreeRegs) ==
    LET New == NewInstsFor(Block[p], FreeRegs)
    IN  removeInst(insertInstsBefore(Block, p, New), p + Len(New))

----------------------------------------------------------------------------
(* SpecStore: one store is rewritten by the pass and the emitted sequence  *)
(* is executed; an interrupt may be taken between two of its instructions  *)
(* and overwrites the stack below SP.                                      *)

\* interrupts taken during one sequence
MaxIrqs == 1
\* words below SP an interrupt overwrites
StackWords == 3
\* registers pushed by a tPUSH
MaxPush == 2

StackTop == 2 ^ 29 + 2 ^ 12
StackLimit == StackTop - 2 ^ 11
HeapBase == 2 ^ 29 + 2 ^ 16
JunkBytes == {165, 90}
EmptyMem == [a \in {} |-> 0]

\* the register file before the store: every register points into the heap,
\* SP is the top of the stack
InitRegs == [r \in 0..16 |->
                CASE r = SP -> StackTop
                  [] r = CPSR -> 0
                  [] OTHER -> HeapBase + 256 * r + 17 * (r + 1)]

\* the value an offset register may hold
OffsetValues == {8, -8, 2 ^ 30}

Store(op, rt, rn, rm, imm, list) == MInst(op, ARMCC_AL, rt, rn, rm, imm, list)

\* the stores given to the pass
StoreInputs ==
    {Store(op, rt, rn, NoRegister, imm, <<>>) :
        op \in {"tSTRi", "tSTRHi", "tSTRBi"}, rt \in {R0, R1}, rn \in {R0, R1},
        imm \in {0, 31}}
    \cup {Store("tSTRspi", rt, SP, NoRegister, imm, <<>>) :
        rt \in {R0, R4}, imm \in {0, 63, 64, 255}}
    \cup {Store(op, rt, rn, NoRegister, imm, <<>>) :
        op \in {"t2STRi12", "t2STRHi12", "t2STRBi12"}, rt \in {R0, R4},
        rn \in {R0, R1, SP}, imm \in {0, 255, 256, 4095}}
    \cup {Store(op, rt, rn, NoRegister, imm, <<>>) :
        op \in {"t2STRi8", "t2STRHi8", "t2STRBi8"}, rt \in {R0, R4},
        rn \in {R0, R1, SP}, imm \in {-255, -8, -5, -1}}
    \cup {Store(op, rt, rn, NoRegister, imm, <<>>) :
        op \in {"t2STR_PRE", "t2STR_POST", "t2STRB_PRE", "t2STRB_POST"},
        rt \in {R0, R4}, rn \in {R1, SP}, imm \in {-8, -4, 4, 8}}
    \cup {Store("tSTRr", rt, rn, rm, 0, <<>>) :
        rt \in {R0, R4}, rn \in {R0, R1}, rm \in {R0, R1, R2}}
    \cup {Store("t2STRs", rt, rn, rm, sh, <<>>) :
        rt \in {R0, R4}, rn \in {R0, R1, SP}, rm \in {R0, R1, R2}, sh \in {0, 2}}
    \cup {Store("t2STRDi8", rt, rn, rt + 1, imm, <<>>) :
        rt \in {R0, R4}, rn \in {R0, R2, SP}, imm \in {-8, 0, 248, 252, 1020}}
    \cup {Store("tPUSH", NoRegister, SP, NoRegister, 0, list) :
        list \in {SubSeq(<<R4, R5, LR>>, 4 - n, 3) : n \in 1..MaxPush}}

\* the registers MI reads: live before MI, so never reported free
UsedBy(MI) == ({MI.rt, MI.rn, MI.rm} \cup {MI.list[j] : j \in 1..Len(MI.list)})
              \ {NoRegister}

\* what findFreeRegisters may return before MI
FreeRegChoices(MI) ==
    {F \in {<<>>, <<R4>>, <<R0, R5>>, <<R3, R12>>} :
        \A j \in 1..Len(F) : F[j] \notin UsedBy(MI)}

NoWrite == [ip |-> 0, wrote |-> {}, sp |-> 0]

InitStore ==
    /\ MBB = <<>> /\ preMBB = <<>> /\ lastEdit = NoEdit /\ edits = 0
    /\ \E MI \in StoreInputs, offv \in OffsetValues :
          /\ MI.rm = R2 \/ offv = 8
          /\ prog = <<MI>>
          /\ regs = IF MI.op \in {"tSTRr", "t2STRs"} /\ MI.rm = R2
                    THEN [InitRegs EXCEPT ![R2] = offv] ELSE InitRegs
          /\ \E F \in FreeRegChoices(MI) :
                ctx = [kind |-> "store", MI |-> MI, FreeRegs |-> F,
                       regs0 |-> regs, rewritten |-> FALSE, irqs |-> 0,
                       last |-> NoWrite]
    /\ ip = 1
    /\ mem = EmptyMem

\* the pass visits the store: insertInstsBefore(MI, NewInsts); removeInst(MI)
RunPass ==
    /\ ctx.kind = "store" /\ ~ctx.rewritten
    /\ prog' = rewriteStore(prog, 1, ctx.FreeRegs)
    /\ ctx' = [ctx EXCEPT !.rewritten = TRUE]
    /\ UNCHANGED <<ip, regs, mem>>
    /\ UNCHANGED editorVars

\* the addresses an unprivileged store is about to write
StoredAt(Rg, I) ==
    IF I.op \in StoreOps
    THEN {AddW(AddW(Rg[I.rn], OffsetOf(I)), i) : i \in 0..(WidthOf(I.op) - 1)}
    ELSE {}

\* the processor executes the next instruction of the emitted sequence
StepStore ==
    /\ ctx.kind = "store" /\ ctx.rewritten
    /\ ip <= Len(prog)
    /\ LET s1 == Exec(regs, mem, prog[ip])
       IN  /\ regs' = s1.regs
           /\ mem' = s1.mem
    /\ ctx' = [ctx EXCEPT !.last = [ip |-> ip, wrote |-> StoredAt(regs, prog[ip]),
                                    sp |-> regs[SP]]]
    /\ ip' = ip + 1
    /\ UNCHANGED prog
    /\ UNCHANGED editorVars

\* an interrupt between two instructions of the sequence: the handler's
\* frame overwrites the words below SP and every register is restored
Interrupt ==
    /\ ctx.kind = "store" /\ ctx.rewritten
    /\ ip > 1 /\ ip <= Len(prog)
    /\ ctx.irqs < MaxIrqs
    /\ \E junk \in JunkBytes :
          mem' = [a \in DOMAIN mem \cup {SubW(regs[SP], i) : i \in 1..(4 * StackWords)}
                    |-> IF \E i \in 1..(4 * StackWords) : a = SubW(regs[SP], i)
                        THEN junk ELSE mem[a]]
    /\ ctx' = [ctx EXCEPT !.irqs = @ + 1]
    /\ UNCHANGED <<prog, ip, regs>>
    /\ UNCHANGED editorVars

NextStore == RunPass \/ StepStore \/ Interrupt

SpecStore == InitStore /\ [][NextStore]_vars

----------------------------------------------------------------------------
(* Claims about the rewritten stores.                                      *)

\* the emitted sequence has run to its end
StoreDone == ctx.kind = "store" /\ ctx.rewritten /\ ip = Len(prog) + 1

\* what the original store does to the state before the sequence
OrigEffect == Exec(ctx.regs0, EmptyMem, ctx.MI)

\* what the emitted sequence does when it is not interrupted
Uninterrupted == Run(ctx.regs0, EmptyMem, prog)

ImmOffsetOps == {"tSTRi", "tSTRHi", "tSTRBi", "t2STRi12", "t2STRHi12",
                 "t2STRBi12", "t2STRi8", "t2STRHi8", "t2STRBi8", "t2STRDi8"}

\* the immediate offset of MI is one the unprivileged store can hold
InRange(MI) ==
    IF MI.op = "t2STRDi8" THEN MI.imm >= 0 /\ MI.imm <= 251
    ELSE OffsetOf(MI) >= 0 /\ OffsetOf(MI) <= 255

SameAsOriginal == mem = OrigEffect.mem /\ regs = OrigEffect.regs

\* C3: for an immediate-offset store whose base is not SP, the emitted
\* sequence writes the same values to the same addresses as the original
\* store and leaves every register as the original store leaves it, for
\* in-range and out-of-range offsets and also when source = base.
C3_ImmStoreSameAsOriginal ==
    (/\ StoreDone /\ ctx.irqs = 0
     /\ ctx.MI.op \in ImmOffsetOps /\ ctx.MI.rn # SP) => SameAsOriginal

\* C4: for a register-offset store whose base is not SP, the emitted add /
\* store / subtract sequence writes the same value to the same address as
\* the original store and leaves the base and every other register with its
\* original value, also when offset = base or source = base.
C4_RegStoreSameAsOriginal ==
    (/\ StoreDone /\ ctx.irqs = 0
     /\ ctx.MI.op \in {"tSTRr", "t2STRs"} /\ ctx.MI.rn # SP) => SameAsOriginal

\* C3 case: a word store of R0 through base R0 with a 12-bit offset above 255
\* has run, and memory holds base + offset where the original stores base.
C3_SourceIsBaseStoresSum ==
    /\ StoreDone /\ ctx.irqs = 0
    /\ ctx.MI = Store("t2STRi12", R0, R0, NoRegister, 256, <<>>)
    /\ Load32(mem, AddW(ctx.regs0[R0], 256)) = AddW(ctx.regs0[R0], 256)
    /\ Load32(OrigEffect.mem, AddW(ctx.regs0[R0], 256)) = ctx.regs0[R0]

\* C4 case: a store through base R1 with offset register R1 has run, and the
\* base register is left holding zero.
C4_OffsetIsBaseZeroesBase ==
    /\ StoreDone /\ ctx.irqs = 0
    /\ ctx.MI = Store("tSTRr", R0, R1, R1, 0, <<>>)
    /\ regs[R1] = 0
    /\ OrigEffect.regs[R1] = ctx.regs0[R1]

\* address a lies in the stack below the stack pointer sp
InStackBelow(a, sp) == a >= StackLimit /\ a < sp

SPNeverRaised ==
    (ctx.kind = "store" /\ ctx.rewritten) =>
        regs[SP] <= Max(ctx.regs0[SP], OrigEffect.regs[SP])

NoStoreBelowSP ==
    (ctx.kind = "store" /\ ctx.rewritten) =>
        \A a \in ctx.last.wrote : ~InStackBelow(a, ctx.last.sp)

SameAsUninterrupted ==
    StoreDone =>
        /\ regs = Uninterrupted.regs
        /\ \A a \in DOMAIN OrigEffect.mem :
              Load8(mem, a) = Load8(Uninterrupted.mem, a)

\* C5: with an interrupt possible between any two instructions of an emitted
\* sequence, SP is never above the larger of its value before the sequence
\* and the value the original store leaves, no emitted store writes below the
\* current SP, and at the end the stored data, SP and the registers equal
\* those of an uninterrupted run.
C5_InterruptSafe == SPNeverRaised /\ NoStoreBelowSP /\ SameAsUninterrupted

\* C5 case: a word store at [SP, #-5] with no free register was interrupted
\* after the data store and before the pop; the stored data is not what an
\* uninterrupted run leaves.
C5_StoredDataClobbered ==
    /\ StoreDone /\ ctx.irqs = 1
    /\ ctx.MI = Store("t2STRi8", R0, SP, NoRegister, -5, <<>>)
    /\ ctx.FreeRegs = <<>>
    /\ \E a \in DOMAIN OrigEffect.mem :
          Load8(mem, a) # Load8(Uninterrupted.mem, a)

\* the original store writes below the stack pointer
OriginalStoresBelowSP ==
    \E a \in DOMAIN OrigEffect.mem :
        InStackBelow(a, ctx.regs0[SP]) /\ InStackBelow(a, OrigEffect.regs[SP])

\* the three properties of C5 hold for every store that does not itself
\* address memory below the stack pointer
InterruptSafeAboveSP ==
    (ctx.kind = "store" /\ ~OriginalStoresBelowSP) => C5_InterruptSafe

\* MI is a store through SP whose offset the unprivileged store cannot hold
SPOutOfRange(MI) ==
    /\ MI.op \in ImmOffsetOps \cup {"tSTRspi"}
    /\ MI.rn = SP
    /\ ~InRange(MI)

WritesSP(I) ==
    /\ I.op \in {"tADDspi", "tSUBspi", "t2ADDri12", "t2SUBri12",
                 "t2ADDrr", "t2SUBrr", "t2ADDrs", "t2SUBrs"}
    /\ I.rt = SP

\* P opens with the spill of a scratch register and ends with its reload
IsSpill(P) ==
    /\ Len(P) >= 4
    /\ P[1].op = "tSUBspi" /\ P[1].imm = 1
    /\ P[2].op = "t2STRT" /\ P[2].rn = SP /\ P[2].imm = 0
    /\ P[Len(P)].op = "tPOP" /\ P[Len(P)].list = <<P[2].rt>>

\* the emitted stores of the data of MI
DataStores(P, MI) ==
    {j \in 1..Len(P) : P[j].op \in {"t2STRT", "t2STRHT", "t2STRBT"}
                        /\ P[j].rt \in {MI.rt, MI.rm}}

\* the address is formed in a scratch register and SP is written by nothing
\* but the spill
AddressInScratch(P, MI) ==
    /\ DataStores(P, MI) # {}
    /\ \A j \in DataStores(P, MI) : P[j].rn \notin {SP, MI.rt, MI.rm}
    /\ \A j \in 1..Len(P) : WritesSP(P[j]) => (IsSpill(P) /\ j = 1)

\* SP is lowered by n, the data stored at [SP, #0], and SP raised by n
LowersSPAround(P, MI, n) ==
    /\ Len(P) >= 3
    /\ P[1].op = "tSUBspi" /\ P[1].rt = SP /\ 4 * P[1].imm = n
    /\ P[Len(P)].op = "tADDspi" /\ P[Len(P)].rt = SP /\ 4 * P[Len(P)].imm = n
    /\ DataStores(P, MI) = 2..(Len(P) - 1)
    /\ \A j \in DataStores(P, MI) : P[j].rn = SP /\ P[j].imm = 4 * (j - 2)

----------------------------------------------------------------------------
(* ARMSilhouetteShadowStack: the return address is stored at a fixed       *)
(* offset from SP before the frame-setup push and loaded from there        *)
(* instead of being popped.                                                *)

SHADOW_STACK_OFFSET == 2048

\* an instruction of a block: a machine instruction with an identity and
\* its MachineInstr flags
SInst(id, op, rt, rn, imm, list, flags) ==
    [id |-> id, op |-> op, cc |-> ARMCC_AL, rt |-> rt, rn |-> rn,
     rm |-> NoRegister, imm |-> imm, list |-> list, flags |-> flags]

\* a null MachineInstr pointer, and the position MBB.end()
NULL == 0
MBBEnd == -1

IndexOf(Blk, id) == CHOOSE j \in 1..Len(Blk) : Blk[j].id = id

\* BuildMI(MBB, before, ...): the new instruction goes before `before`
BuildMI(Blk, before, I) ==
    IF before = MBBEnd THEN Append(Blk, I)
    ELSE InsertAt(Blk, IndexOf(Blk, before), <<I>>)

\* an add / subtract of an immediate on SP, tagged ShadowStack
AdjustSP(id, op, imm) == SInst(id, op, SP, SP, imm, <<>>, {"ShadowStack"})

\* F applied to the value of e, which is computed once
With(e, F(_)) == CHOOSE r \in {F(x) : x \in {e}} : TRUE

\* the instruction BuildMI has just put into Blk
Built(Blk) == MaxIdOf(Blk)

\* while (imm_left > 4095) { at = BuildMI(MBB, at, op SP, SP, 4095);
\* imm_left -= 4095; } where a null `at` stands for MI the first time
RECURSIVE AdjustLoop(_, _, _, _, _)
AdjustLoop(Blk, MI, at, op, imm_left) ==
    IF imm_left > 4095
    THEN With(BuildMI(Blk, IF at = NULL THEN MI ELSE at,
                      AdjustSP(MaxIdOf(Blk) + 1, op, 4095)),
              LAMBDA B : AdjustLoop(B, MI, Built(B), op, imm_left - 4095))
    ELSE [blk |-> Blk, at |-> at, imm_left |-> imm_left]

\* the common shape of the two builders when the displacement does not fit:
\* subInstr is the initial value of the local variable of that name
buildOutOfRange(Blk, MI, subInstr, memOp, spillReg, imm) ==
    LET addOp == IF imm >= 0 THEN "t2ADDri12" ELSE "t2SUBri12"
        subOp == IF imm >= 0 THEN "t2SUBri12" ELSE "t2ADDri12"
        abs   == IF imm >= 0 THEN imm ELSE -imm
        \* if (imm < 0) { subInstr = BuildMI(..., subOp, imm_left); imm_left = 0; }
        remaining(l) ==
            IF imm < 0
            THEN With(BuildMI(l.blk, IF l.at = NULL THEN MBBEnd ELSE l.at,
                              AdjustSP(MaxIdOf(l.blk) + 1, subOp, l.imm_left)),
                      LAMBDA B : [blk |-> B, at |-> Built(B), imm_left |-> 0])
            ELSE l
        \* the store / load itself, built before subInstr
        access(l) ==
            BuildMI(l.blk, l.at,
                    SInst(MaxIdOf(l.blk) + 1, memOp, spillReg, SP, l.imm_left,
                          <<>>, {"ShadowStack"}))
        \* if (imm < 0) BuildMI(MBB, addInstr, ..., addOp, imm_left)
        revert(l) ==
            IF imm < 0
            THEN BuildMI(l.blk, l.at, AdjustSP(MaxIdOf(l.blk) + 1, addOp, l.imm_left))
            ELSE l.blk
    IN  With(AdjustLoop(Blk, MI, subInstr, subOp, abs), LAMBDA l1 :
        With(remaining(l1), LAMBDA l :
        With(access(l), LAMBDA B :
        With(AdjustLoop(B, Built(B), Built(B), addOp, abs), LAMBDA l2 :
            [blk |-> revert(l2), ret |-> Built(B)]))))

\* buildStrSSInstr(MBB, MI, spillReg, imm, DL, TII): subInstr starts as MI
buildStrSSInstr(Blk, MI, spillReg, imm) ==
    IF imm < 4096 /\ imm >= 0
    THEN [blk |-> BuildMI(Blk, MI, SInst(MaxIdOf(Blk) + 1, "t2STRi12", spillReg,
                                         SP, imm, <<>>, {"ShadowStack"})),
          ret |-> MaxIdOf(Blk) + 1]
    ELSE buildOutOfRange(Blk, MI, MI, "t2STRi12", spillReg, imm)

\* buildLdrSSInstr(MBB, MI, spillReg, imm, DL, TII, extra_operands): subInstr
\* is declared without an initial value and read before it is assigned, so
\* its initial value is whatever the caller supplies
buildLdrSSInstr(Blk, MI, spillReg, imm, subInstr) ==
    IF imm < 4096 /\ imm >= 0
    THEN [blk |-> BuildMI(Blk, MI, SInst(MaxIdOf(Blk) + 1, "t2LDRi12", spillReg,
                                         SP, imm, <<>>, {"ShadowStack"})),
          ret |-> MaxIdOf(Blk) + 1]
    ELSE buildOutOfRange(Blk, MI, subInstr, "t2LDRi12", spillReg, imm)

\* the operands of a pop as the instruction's descriptor lays them out:
\* tPOP / tPOP_RET are (pred, reglist); t2LDMIA_RET is (wb, Rn, pred,
\* reglist)
RegOp(r) == [k |-> "reg", v |-> r]
ImmOp(n) == [k |-> "imm", v |-> n]
PredOps(I) == <<ImmOp(I.cc), RegOp(NoRegister)>>
RegOps(list) == [j \in 1..Len(list) |-> RegOp(list[j])]
Operands(I) ==
    IF I.op = "t2LDMIA_RET"
    THEN <<RegOp(I.rn), RegOp(I.rn)>> \o PredOps(I) \o RegOps(I.list)
    ELSE PredOps(I) \o RegOps(I.list)

\* the instruction an operand vector denotes under the descriptor of op
RegOf(o) == IF o.k = "reg" THEN o.v ELSE NoRegister
FromOperands(id, op, ops, flags) ==
    LET first == IF op = "t2LDMIA_RET" THEN 3 ELSE 1
        rl    == SubSeq(ops, first + 2, Len(ops))
    IN  [id |-> id, op |-> op, cc |-> ops[first].v, rt |-> NoRegister,
         rn |-> IF op = "t2LDMIA_RET" THEN RegOf(ops[2]) ELSE SP,
         rm |-> NoRegister, imm |-> 0,
         list |-> [j \in 1..Len(rl) |-> RegOf(rl[j])], flags |-> flags]

IsPC(o) == o.k = "reg" /\ o.v = PC
NotPC(o) == ~IsPC(o)

\* rebuildPopInstr(MBB, MI, DL, TII, extra_operands, MI_order): the
\* predicate operands, then the operands of MI from index 2 except PC
rebuildPopInstr(Blk, MI, extra_operands, MI_order) ==
    LET old == Blk[IndexOf(Blk, MI)]
        ops == Operands(old)
        new == extra_operands \o SelectSeq(SubSeq(ops, 3, Len(ops)), NotPC)
    IN  BuildMI(Blk, MI_order,
                FromOperands(MaxIdOf(Blk) + 1, old.op, new, old.flags))

InList(r, list) == \E j \in 1..Len(list) : list[j] = r

\* one iteration of the loop over the instructions of the block: the block
\* after visiting MI and the instructions to erase afterwards
visitShadow(Blk, MI, imm, subInstr) ==
    LET I == Blk[IndexOf(Blk, MI)]
    IN  CASE I.op \in {"t2STMDB", "tPUSH"} ->
               IF "FrameSetup" \in I.flags /\ InList(LR, I.list)
               THEN [blk |-> buildStrSSInstr(Blk, MI, LR, imm - 4).blk,
                     erase |-> {}]
               ELSE [blk |-> Blk, erase |-> {}]
          [] I.op \in {"t2LDMIA_RET", "tPOP_RET", "tPOP"} ->
               IF InList(PC, I.list)
               THEN With(buildLdrSSInstr(Blk, MI, PC, imm - 4, subInstr),
                         LAMBDA ldrMI :
                    With(BuildMI(ldrMI.blk, ldrMI.ret,
                                 SInst(MaxIdOf(ldrMI.blk) + 1, "tADDspi", SP, SP,
                                       1, <<>>, {"ShadowStack"})),
                         LAMBDA B :
                            [blk |-> rebuildPopInstr(B, MI, PredOps(I), Built(B)),
                             erase |-> {MI}]))
               ELSE [blk |-> Blk, erase |-> {}]
          [] OTHER -> [blk |-> Blk, erase |-> {}]

RECURSIVE visitAll(_, _, _, _, _)
visitAll(Blk, ids, imm, subInstr, erase) ==
    IF ids = <<>> THEN [blk |-> Blk, erase |-> erase]
    ELSE With(visitShadow(Blk, Head(ids), imm, subInstr), LAMBDA v :
              visitAll(v.blk, Tail(ids), imm, subInstr, erase \cup v.erase))

Kept(Blk, erase) ==
    LET keep(I) == I.id \notin erase IN SelectSeq(Blk, keep)

\* ARMSilhouetteShadowStack::runOnMachineFunction on one block; imm is the
\* build's shadow-stack offset
shadowStackPass(Blk, imm, subInstr) ==
    With(visitAll(Blk, [j \in 1..Len(Blk) |-> Blk[j].id], imm, subInstr, {}),
         LAMBDA v : Kept(v.blk, v.erase))

----------------------------------------------------------------------------
(* SpecShadow: a function whose prologue pushes LR and whose epilogue pops *)
(* PC is rewritten by the shadow-stack pass and executed; its body calls   *)
(* the function again up to a chosen depth, and ordinary-stack words may   *)
(* be overwritten while it runs.                                           *)

MaxDepth == 2
MaxWrites == 1

\* the shadow-stack offsets a build may be configured with
ShadowOffsets == {SHADOW_STACK_OFFSET, 0, 4092, 4096, 4100, 8200}

CodeBase == 2 ^ 27
AddrOf(j) == CodeBase + 4 * j
Gadget == CodeBase + 2 ^ 10
NoAddr == MinInt32

\* the callee-saved registers of the frame, then LR (prologue) or PC
\* (epilogue)
SavedRegs == <<R4, R8>>

Function(pushOp, popOp) ==
    << SInst(1, pushOp, NoRegister, SP, 0, SavedRegs \o <<LR>>, {"FrameSetup"}),
       SInst(2, "tBL", NoRegister, NoRegister, 0, <<>>, {}),
       SInst(3, popOp, NoRegister, SP, 0, SavedRegs \o <<PC>>, {"FrameDestroy"}) >>

NoReturn == [valid |-> FALSE, read |-> NoAddr, pc |-> 0, wrote |-> NoAddr,
             lr |-> 0, level |-> 0]

InitShadow ==
    /\ MBB = <<>> /\ preMBB = <<>> /\ lastEdit = NoEdit /\ edits = 0
    /\ \E pushOp \in {"tPUSH", "t2STMDB_UPD"}, popOp \in {"tPOP_RET", "t2LDMIA_RET"},
          K \in ShadowOffsets, depth \in 0..MaxDepth,
          sub \in {NULL, 3}, base \in {SP, R0} :
          /\ sub = NULL \/ ~(K - 4 \in 0..4095)
          /\ base = SP \/ popOp = "t2LDMIA_RET"
          /\ prog = Function(pushOp, popOp)
          /\ ctx = [kind |-> "shadow", K |-> K, depth |-> depth,
                    subInstr |-> sub, noRegBase |-> base,
                    fn |-> Function(pushOp, popOp), rewritten |-> FALSE,
                    calls |-> 0, writes |-> 0, frames |-> <<>>,
                    last |-> NoReturn, wild |-> FALSE]
    /\ ip = 0
    /\ regs = InitRegs
    /\ mem = EmptyMem

Frame(Rg) == [sp |-> Rg[SP], lr |-> Rg[LR], wrote |-> NoAddr]

\* the pass runs on the function, then the function is entered
RunShadowPass ==
    /\ ctx.kind = "shadow" /\ ~ctx.rewritten
    /\ prog' = shadowStackPass(prog, ctx.K, ctx.subInstr)
    /\ ctx' = [ctx EXCEPT !.rewritten = TRUE, !.frames = <<Frame(regs)>>]
    /\ ip' = 1
    /\ UNCHANGED <<regs, mem>>
    /\ UNCHANGED editorVars

IsSetupStore(I) == I.op = "t2STRi12" /\ "ShadowStack" \in I.flags /\ I.rt = LR
IsTeardownLoad(I) == I.op = "t2LDRi12" /\ "ShadowStack" \in I.flags /\ I.rt = PC
WritesPC(I) ==
    \/ I.op = "t2LDRi12" /\ I.rt = PC
    \/ I.op \in {"tPOP", "tPOP_RET", "t2LDMIA_RET"} /\ InList(PC, I.list)

\* the base register the processor uses for an instruction whose base
\* operand is not a register
Resolve(I, base) == IF I.rn = NoRegister THEN [I EXCEPT !.rn = base] ELSE I

\* where a value loaded into PC continues: inside the function, back in
\* the outermost caller (past the end), or nowhere the program meant
Target(v) ==
    IF \E j \in 1..Len(prog) : v = AddrOf(j)
    THEN CHOOSE j \in 1..Len(prog) : v = AddrOf(j)
    ELSE Len(prog) + 1

StepShadow ==
    /\ ctx.kind = "shadow" /\ ctx.rewritten
    /\ ip >= 1 /\ ip <= Len(prog)
    /\ LET I   == Resolve(prog[ip], ctx.noRegBase)
           s1  == Exec(regs, mem, I)
           top == IF ctx.frames = <<>> THEN Frame(regs) ELSE ctx.frames[Len(ctx.frames)]
           rest == IF ctx.frames = <<>> THEN <<>>
                   ELSE SubSeq(ctx.frames, 1, Len(ctx.frames) - 1)
       IN  CASE I.op = "tBL" /\ ctx.calls < ctx.depth ->
                  /\ regs' = [regs EXCEPT ![LR] = AddrOf(ip + 1)]
                  /\ ip' = 1
                  /\ ctx' = [ctx EXCEPT !.calls = @ + 1,
                                        !.frames = Append(@, Frame(regs'))]
                  /\ UNCHANGED mem
             [] I.op = "tBL" /\ ~(ctx.calls < ctx.depth) ->
                  /\ ip' = ip + 1
                  /\ UNCHANGED <<regs, mem, ctx>>
             [] I.op # "tBL" /\ WritesPC(I) ->
                  /\ regs' = s1.regs
                  /\ mem' = s1.mem
                  /\ ip' = Target(s1.regs[PC])
                  /\ ctx' = [ctx EXCEPT
                        !.frames = rest,
                        !.wild = ~(\E j \in 1..Len(prog) : s1.regs[PC] = AddrOf(j))
                                 /\ s1.regs[PC] # InitRegs[LR],
                        !.last = IF IsTeardownLoad(I)
                                 THEN [valid |-> TRUE,
                                       read |-> AddW(regs[SP], I.imm),
                                       pc |-> s1.regs[PC], wrote |-> top.wrote,
                                       lr |-> top.lr, level |-> Len(rest)]
                                 ELSE @]
             [] OTHER ->
                  /\ regs' = s1.regs
                  /\ mem' = s1.mem
                  /\ ip' = ip + 1
                  /\ ctx' = IF IsSetupStore(I) /\ ctx.frames # <<>>
                            THEN [ctx EXCEPT !.frames =
                                    Append(rest, [top EXCEPT !.wrote =
                                                    AddW(regs[SP], I.imm)])]
                            ELSE ctx
    /\ UNCHANGED prog
    /\ UNCHANGED editorVars

\* the ordinary-stack words of the frames in use
FrameWords(Rg) ==
    {a \in {SubW(StackTop, 4 * j) : j \in 1..((Len(SavedRegs) + 1) * (MaxDepth + 1))} :
        a >= Rg[SP]}

\* a write to an ordinary-stack word while the function runs
WriteStack ==
    /\ ctx.kind = "shadow" /\ ctx.rewritten
    /\ ip >= 1 /\ ip <= Len(prog)
    /\ ctx.writes < MaxWrites
    /\ \E a \in FrameWords(regs) : mem' = StoreN(mem, a, 4, Gadget)
    /\ ctx' = [ctx EXCEPT !.writes = @ + 1]
    /\ UNCHANGED <<prog, ip, regs>>
    /\ UNCHANGED editorVars

NextShadow == RunShadowPass \/ StepShadow \/ WriteStack

SpecShadow == InitShadow /\ [][NextShadow]_vars

----------------------------------------------------------------------------
(* Shadow-stack properties                                                 *)

Fits(K) == K - 4 >= 0 /\ K - 4 < 4096

\* the function pops as many words as it pushed, so that SP after the
\* epilogue of the function as written equals SP at its entry
BalancedFrame(fn) == Len(fn[1].list) = Len(fn[3].list)

\* a Teardown load has just executed in a frame whose Setup store executed
TornDown == ctx.kind = "shadow" /\ ctx.last.valid /\ ctx.last.wrote # NoAddr

Symmetric == ctx.last.read = ctx.last.wrote /\ ctx.last.pc = ctx.last.lr

\* C7: shadow-stack symmetry.  For a function whose frame-setup push of LR
\* and whose pop of PC are both rewritten with offset K and which pops the
\* frame it pushed, the Teardown load reads the address the Setup store of
\* the same activation wrote and loads the LR value Setup stored, for every
\* K (fitting the single-instruction form or not) and at every depth of
\* nested calls, when nothing else writes the stack.
C7_ShadowSymmetry ==
    (TornDown /\ BalancedFrame(ctx.fn) /\ ctx.writes = 0) => Symmetric

\* the symmetry for the offsets whose displacement fits t2STRi12 / t2LDRi12
\* and a pop whose base register is SP
C7_SymmetryWhenFits ==
    (TornDown /\ ctx.writes = 0 /\ Fits(ctx.K) /\ ctx.noRegBase = SP)
        => Symmetric

\* an outer activation returns after a nested call with an offset that does
\* not fit, and its Teardown load reads another address than Setup wrote
C7_NestedReturnReadsElsewhere ==
    /\ TornDown /\ ctx.writes = 0 /\ ~Fits(ctx.K)
    /\ ctx.fn[1].op = "tPUSH" /\ ctx.fn[3].op = "tPOP_RET"
    /\ ctx.calls >= 1 /\ ctx.last.level < ctx.calls
    /\ ctx.last.read # ctx.last.wrote

\* C8: return-address independence from the ordinary stack.  In a function
\* rewritten by the pass as built (offset SHADOW_STACK_OFFSET), whatever is
\* written to ordinary-stack words while it runs, the value the Teardown
\* load puts into PC is the LR value the activation was entered with (so
\* two runs that differ only in those writes load the same value).
C8_ReturnIndependent ==
    (ctx.kind = "shadow" /\ ctx.last.valid /\ ctx.K = SHADOW_STACK_OFFSET)
        => ctx.last.pc = ctx.last.lr

\* the same for functions whose prologue is the 16-bit push
C8_IndependentAfterPush ==
    (ctx.kind = "shadow" /\ ctx.last.valid /\ ctx.K = SHADOW_STACK_OFFSET
       /\ ctx.fn[1].op = "tPUSH" /\ ctx.noRegBase = SP)
        => ctx.last.pc = ctx.last.lr

\* a function whose prologue is the 32-bit push with write-back gets no
\* Setup store, and its Teardown load puts something else than the entry LR
\* into PC
C8_NoSetupForWideProlog ==
    /\ ctx.kind = "shadow" /\ ctx.last.valid /\ ctx.K = SHADOW_STACK_OFFSET
    /\ ctx.fn[1].op = "t2STMDB_UPD" /\ ctx.fn[3].op = "t2LDMIA_RET"
    /\ ctx.last.wrote = NoAddr
    /\ ctx.last.pc # ctx.last.lr

----------------------------------------------------------------------------
(* ARMSilhouetteLabelCFI: a label is placed at every legal target and a    *)
(* check of the label is placed before every indirect transfer.            *)

CFI_LABEL_CALL == 17920
CFI_LABEL_JMP == 17920

\* the 16-bit Thumb encodings of MOV Rd, Rm (0100 0110 D Rm Rd) and of
\* MOVS Rd, Rm (0000 0000 00 Rm Rd)
EncodeThumb(I) ==
    CASE I.op = "tMOVr" -> 17920 + 128 * (I.rt \div 8) + 8 * I.rm + (I.rt % 8)
      [] I.op = "tMOVSr" -> 8 * I.rm + I.rt

\* BackupRegister(MI, Reg); Strt tells whether stores are being turned into
\* unprivileged stores (!SilhouetteInvert && SilhouetteStr2Strt)
BackupRegister(Reg, Strt) ==
    IF ~Strt
    THEN <<MInst("tPUSH", ARMCC_AL, NoRegister, SP, NoRegister, 0, <<Reg>>)>>
    ELSE <<MInst("tSUBspi", ARMCC_AL, SP, SP, NoRegister, 1, <<>>),
           MInst("t2STRT", ARMCC_AL, Reg, SP, NoRegister, 0, <<>>)>>

\* RestoreRegister(MI, Reg)
RestoreRegister(Reg) ==
    <<MInst("tPOP", ARMCC_AL, NoRegister, SP, NoRegister, 0, <<Reg>>)>>

\* insertCFILabelForCall(MF): "movs r3, r3" at the function entry
insertCFILabelForCall ==
    MInst("tMOVSr", ARMCC_AL, R3, NoRegister, R3, 0, <<>>)

\* insertCFILabelForJump(MBB): "mov r0, r0" at the start of the block
insertCFILabelForJump ==
    MInst("tMOVr", ARMCC_AL, R0, NoRegister, R0, 0, <<>>)

\* insertCFICheck(MI, Reg, Label): the instructions placed before MI
insertCFICheck(MI, Reg, Label, FreeRegs, Strt) ==
    LET ScratchReg == IF FreeRegs # <<>> THEN FreeRegs[1] ELSE R4
    IN  (IF FreeRegs # <<>> THEN <<>> ELSE BackupRegister(ScratchReg, Strt))
        \o (IF MI.op # "tBRIND"
            THEN <<MInst("t2BFC", ARMCC_AL, Reg, Reg, NoRegister, -2, <<>>)>>
            ELSE <<>>)
        \o <<MInst("t2LDRHi12", ARMCC_AL, ScratchReg, Reg, NoRegister, 0, <<>>),
             MInst("t2CMPri", ARMCC_AL, NoRegister, ScratchReg, NoRegister,
                   Label, <<>>),
             MInst("t2IT", ARMCC_NE, NoRegister, NoRegister, NoRegister, 8, <<>>),
             MInst("t2BFC", ARMCC_NE, Reg, Reg, NoRegister, 0, <<>>)>>
        \o (IF MI.op # "tBRIND"
            THEN <<MInst("t2ORRri", ARMCC_AL, Reg, Reg, NoRegister, 1, <<>>)>>
            ELSE <<>>)
        \o (IF FreeRegs = <<>> THEN RestoreRegister(ScratchReg) ELSE <<>>)

JumpOps == {"tBRIND", "tBX", "tBXNS"}
CallOps == {"tBLXr", "tBLXNSr", "tBX_CALL", "tTAILJMPr"}

insertCFICheckForCall(MI, Reg, FreeRegs, Strt) ==
    insertCFICheck(MI, Reg, CFI_LABEL_CALL, FreeRegs, Strt)
insertCFICheckForJump(MI, Reg, FreeRegs, Strt) ==
    insertCFICheck(MI, Reg, CFI_LABEL_JMP, FreeRegs, Strt)

\* the loop over IndirectBranches of runOnMachineFunction, for one transfer
cfiCheckFor(MI, FreeRegs, Strt) ==
    IF MI.op \in JumpOps
    THEN insertCFICheckForJump(MI, MI.rm, FreeRegs, Strt)
    ELSE insertCFICheckForCall(MI, MI.rm, FreeRegs, Strt)

----------------------------------------------------------------------------
(* SpecCFI: an indirect transfer through a register is given its label     *)
(* check, and the check and the transfer are executed against targets that *)
(* carry the label the pass emits, or no label.                            *)

\* a function entry labelled by insertCFILabelForCall, the start of a
\* successor block labelled by insertCFILabelForJump, and an address in the
\* middle of code (a push {lr})
FnEntry == CodeBase + 2 ^ 12
BlockEntry == CodeBase + 2 ^ 13
Elsewhere == CodeBase + 2 ^ 14
Targets == {FnEntry, BlockEntry, Elsewhere}

CodeMem ==
    StoreN(StoreN(StoreN(EmptyMem,
        FnEntry, 2, EncodeThumb(insertCFILabelForCall)),
        BlockEntry, 2, EncodeThumb(insertCFILabelForJump)),
        Elsewhere, 2, 181 * 256)

Transfer(op, Reg) ==
    MInst(op, ARMCC_AL, NoRegister, NoRegister, Reg, 0, <<>>)

TransferOps == {"tBRIND", "tBX", "tBLXr"}

\* bit 0 of the register selects the Thumb state for BX / BLX
ThumbBit(op) == IF op = "tBRIND" THEN 0 ELSE 1

InitCFI ==
    /\ MBB = <<>> /\ preMBB = <<>> /\ lastEdit = NoEdit /\ edits = 0
    /\ \E op \in TransferOps, Reg \in {R0, R4, R5}, target \in Targets,
          Strt \in BOOLEAN :
          \E F \in FreeRegChoices(Transfer(op, Reg)) :
             /\ Strt \/ F = <<>>
             /\ prog = <<Transfer(op, Reg)>>
             /\ regs = [InitRegs EXCEPT ![Reg] = target + ThumbBit(op)]
             /\ ctx = [kind |-> "cfi", MI |-> Transfer(op, Reg), FreeRegs |-> F,
                       Strt |-> Strt, target |-> target, regs0 |-> regs,
                       rewritten |-> FALSE, done |-> FALSE, at |-> 0]
    /\ ip = 1
    /\ mem = CodeMem

\* the pass puts the check before the transfer
RunCFIPass ==
    /\ ctx.kind = "cfi" /\ ~ctx.rewritten
    /\ prog' = cfiCheckFor(ctx.MI, ctx.FreeRegs, ctx.Strt) \o <<ctx.MI>>
    /\ ctx' = [ctx EXCEPT !.rewritten = TRUE]
    /\ UNCHANGED <<ip, regs, mem>>
    /\ UNCHANGED editorVars

\* the processor executes the next instruction; the transfer itself ends
\* the run with the register value it branches to
StepCFI ==
    /\ ctx.kind = "cfi" /\ ctx.rewritten
    /\ ip <= Len(prog)
    /\ IF prog[ip].op \in JumpOps \cup CallOps
       THEN /\ ctx' = [ctx EXCEPT !.done = TRUE, !.at = regs[prog[ip].rm]]
            /\ UNCHANGED <<regs, mem>>
       ELSE /\ LET s1 == Exec(regs, mem, prog[ip])
               IN  regs' = s1.regs /\ mem' = s1.mem
            /\ UNCHANGED ctx
    /\ ip' = ip + 1
    /\ UNCHANGED prog
    /\ UNCHANGED editorVars

NextCFI == RunCFIPass \/ StepCFI

SpecCFI == InitCFI /\ [][NextCFI]_vars

----------------------------------------------------------------------------
(* Label-check properties                                                  *)

Transferred == ctx.kind = "cfi" /\ ctx.done

\* the label a check of this transfer compares with
ExpectedLabel(MI) ==
    IF MI.op \in JumpOps THEN CFI_LABEL_JMP ELSE CFI_LABEL_CALL

LabelAt(a) == Load16(CodeMem, a)
OrigReg == ctx.regs0[ctx.MI.rm]

\* C9: when the halfword at the target equals the expected label the
\* transfer executes with Reg holding its original value, and when it
\* differs the transfer executes with Reg equal to zero; for every Reg and
\* every free-register set, the empty set (spill of R4) and Reg = R4
\* included.
C9_CheckPassesOrZeroes ==
    Transferred =>
        IF LabelAt(ctx.target) = ExpectedLabel(ctx.MI)
        THEN ctx.at = OrigReg
        ELSE ctx.at = 0

\* with no free register and Reg = R4 the transfer to a target without the
\* label executes with Reg holding the original target
C9_SpilledTargetBypasses ==
    /\ Transferred
    /\ ctx.FreeRegs = <<>> /\ ctx.MI.rm = R4
    /\ LabelAt(ctx.target) # ExpectedLabel(ctx.MI)
    /\ ctx.at = OrigReg

\* whenever the scratch register is not Reg: a match leaves Reg as it was,
\* a mismatch leaves zero, with bit 0 set for BX / BLX
C9_CheckWithOtherScratch ==
    (Transferred /\ ~(ctx.FreeRegs = <<>> /\ ctx.MI.rm = R4)) =>
        IF LabelAt(ctx.target) = ExpectedLabel(ctx.MI)
        THEN ctx.at = OrigReg
        ELSE ctx.at = ThumbBit(ctx.MI.op)

\* the target the pass labels for this kind of transfer
LabelledTarget(MI) == IF MI.op \in JumpOps THEN BlockEntry ELSE FnEntry

\* C10: the marker emitted at a function entry (for calls) and at a
\* successor block (for jumps) has the encoding the corresponding check
\* compares with, so a check guarding a transfer to a labelled target
\* passes: the transfer executes with Reg holding the target.
C10_LabelledTargetPasses ==
    (Transferred /\ ctx.target = LabelledTarget(ctx.MI)) => ctx.at = OrigReg

\* an indirect call to a labelled function entry fails its check
C10_CallToLabelledEntryFails ==
    /\ Transferred
    /\ ctx.MI.op \in CallOps /\ ctx.target = FnEntry
    /\ EncodeThumb(insertCFILabelForCall) # CFI_LABEL_CALL
    /\ ctx.at # OrigReg

\* the check of an indirect jump to a labelled block passes
C10_JumpToLabelledBlockPasses ==
    (Transferred /\ ctx.MI.op \in JumpOps /\ ctx.target = BlockEntry)
        => ctx.at = OrigReg

----------------------------------------------------------------------------
(* ARMSilhouetteLabelCFI::runOnMachineFunction on a whole function: blocks *)
(* with their successor lists, the function's linkage and name.            *)

MaxBlocks == 2

\* an instruction of a function: a machine instruction with an identity
\* (0 for the instructions a pass inserts)
FInst(id, op, Reg) ==
    [id |-> id, op |-> op, cc |-> ARMCC_AL, rt |-> NoRegister,
     rn |-> NoRegister, rm |-> Reg, imm |-> 0, list |-> <<>>]
Inserted(I) == I @@ [id |-> 0]

\* a machine function: its blocks (instructions and successor block
\* numbers), its linkage, whether its address is taken, whether its name is
\* in funcBlacklist and whether its section is "privileged_functions"
MFunc(blocks, linkage, addrTaken, denied, privileged) ==
    [blocks |-> blocks, linkage |-> linkage, addrTaken |-> addrTaken,
     denied |-> denied, privileged |-> privileged]

\* the instructions collected into IndirectBranches, in program order, each
\* with the number of its block
RECURSIVE CollectIn(_, _)
CollectIn(insts, b) ==
    IF insts = <<>> THEN <<>>
    ELSE (IF Head(insts).op \in JumpOps \cup CallOps
          THEN <<[b |-> b, id |-> Head(insts).id]>> ELSE <<>>)
         \o CollectIn(Tail(insts), b)
RECURSIVE IndirectBranches(_, _)
IndirectBranches(blocks, b) ==
    IF b > Len(blocks) THEN <<>>
    ELSE CollectIn(blocks[b].insts, b) \o IndirectBranches(blocks, b + 1)

LabelBlockAtEnd(blocks, b, label) ==
    [blocks EXCEPT ![b].insts = @ \o <<Inserted(label)>>]

\* BuildMI(MBB, MBB.begin(), ...) for block b
LabelBlock(blocks, b, label) ==
    [blocks EXCEPT ![b].insts = <<Inserted(label)>> \o @]

RECURSIVE LabelSuccessors(_, _)
LabelSuccessors(blocks, succ) ==
    IF succ = <<>> THEN blocks
    ELSE With(LabelBlock(blocks, Head(succ), insertCFILabelForJump),
              LAMBDA B : LabelSuccessors(B, Tail(succ)))

PositionOf(insts, id) == CHOOSE j \in 1..Len(insts) : insts[j].id = id

\* the check placed before the instruction id of block b
CheckBlock(blocks, b, id, FreeRegs, Strt) ==
    LET insts == blocks[b].insts
        p     == PositionOf(insts, id)
        check == cfiCheckFor(insts[p], FreeRegs, Strt)
    IN  [blocks EXCEPT ![b].insts =
            InsertAt(insts, p, [j \in 1..Len(check) |-> Inserted(check[j])])]

\* for (MachineInstr * MI : IndirectBranches) { ... }
RECURSIVE GuardAll(_, _, _, _)
GuardAll(blocks, branches, FreeRegs, Strt) ==
    IF branches = <<>> THEN blocks
    ELSE LET br == Head(branches)
             MI == blocks[br.b].insts[PositionOf(blocks[br.b].insts, br.id)]
         IN  With(IF MI.op \in JumpOps
                  THEN LabelSuccessors(blocks, blocks[br.b].succ)
                  ELSE blocks,
                  LAMBDA B :
             With(CheckBlock(B, br.b, br.id, FreeRegs, Strt),
                  LAMBDA C : GuardAll(C, Tail(branches), FreeRegs, Strt)))

\* ARMSilhouetteLabelCFI::runOnMachineFunction
labelCFIPass(MF, FreeRegs, Strt) ==
    IF MF.denied \/ MF.privileged THEN MF
    ELSE LET branches == IndirectBranches(MF.blocks, 1)
             visible  == (MF.linkage \notin {"internal", "private"})
                         \/ MF.addrTaken
             labelled == IF visible /\ MF.blocks # <<>>
                         THEN LabelBlock(MF.blocks, 1, insertCFILabelForCall)
                         ELSE MF.blocks
         IN  With(labelled, LAMBDA B :
                  [MF EXCEPT !.blocks = GuardAll(B, branches, FreeRegs, Strt)])

----------------------------------------------------------------------------
(* SpecLabel: the label-checking pass applied to small functions.          *)

RECURSIVE SortedSeq(_)
SortedSeq(S) ==
    IF S = {} THEN <<>>
    ELSE LET m == CHOOSE x \in S : \A y \in S : x <= y
         IN  <<m>> \o SortedSeq(S \ {m})

\* the last instruction of a block: an indirect jump or call through R0, or
\* a direct call
LastOps == {"tBRIND", "tBX", "tBLXr", "tBL"}

\* block b of a function of n blocks: an instruction and a last
\* instruction; the entry block is nobody's successor
BlockChoices(b, n) ==
    {[insts |-> <<FInst(2 * b - 1, "t2ADDri", R1), FInst(2 * b, op, R0)>>,
      succ |-> SortedSeq(S)] : op \in LastOps, S \in SUBSET (2..n)}

FunctionChoices ==
    UNION {{MFunc(blocks, linkage, addrTaken, denied, privileged) :
               blocks \in [1..n -> UNION {BlockChoices(b, n) : b \in 1..n}],
               linkage \in {"external", "internal", "private"},
               addrTaken \in BOOLEAN, denied \in BOOLEAN,
               privileged \in BOOLEAN} : n \in 0..MaxBlocks}

WellNumbered(MF) ==
    \A b \in 1..Len(MF.blocks) : MF.blocks[b] \in BlockChoices(b, Len(MF.blocks))

InitLabel ==
    /\ MBB = <<>> /\ preMBB = <<>> /\ lastEdit = NoEdit /\ edits = 0
    /\ prog = <<>> /\ ip = 0 /\ regs = InitRegs /\ mem = EmptyMem
    /\ \E MF \in FunctionChoices, F \in {<<>>, <<R5>>}, Strt \in BOOLEAN :
          /\ WellNumbered(MF)
          /\ Strt \/ F = <<>>
          /\ ~(MF.denied /\ MF.privileged)
          /\ ctx = [kind |-> "label", MF |-> MF, FreeRegs |-> F, Strt |-> Strt,
                    out |-> MF, rewritten |-> FALSE]

RunLabelPass ==
    /\ ctx.kind = "label" /\ ~ctx.rewritten
    /\ ctx' = [ctx EXCEPT !.out = labelCFIPass(ctx.MF, ctx.FreeRegs, ctx.Strt),
                          !.rewritten = TRUE]
    /\ UNCHANGED <<prog, ip, regs, mem>>
    /\ UNCHANGED editorVars

NextLabel == RunLabelPass

SpecLabel == InitLabel /\ [][NextLabel]_vars

Labelled == ctx.kind = "label" /\ ctx.rewritten
NotSkipped(MF) == ~MF.denied /\ ~MF.privileged
Visible(MF) == MF.linkage = "external" \/ MF.addrTaken
IsCallLabel(I) == I.op = "tMOVSr" /\ I.rt = R3 /\ I.rm = R3
IsJumpLabel(I) == I.op = "tMOVr" /\ I.rt = R0 /\ I.rm = R0
FirstOf(MF, b) == MF.blocks[b].insts[1]
HasJump(blk) == \E j \in 1..Len(blk.insts) : blk.insts[j].op \in JumpOps

\* C11: after the label-checking pass on a function that is not skipped,
\* an externally visible or address-taken function with at least one block
\* starts with a call label, and every successor block of a block holding
\* a guarded register-indirect branch starts with a jump label.
C11_LabelsAtTargets ==
    (Labelled /\ NotSkipped(ctx.MF)) =>
        /\ (Visible(ctx.MF) /\ ctx.MF.blocks # <<>>)
              => IsCallLabel(FirstOf(ctx.out, 1))
        /\ \A b \in 1..Len(ctx.MF.blocks) :
              HasJump(ctx.MF.blocks[b]) =>
                 \A j \in 1..Len(ctx.MF.blocks[b].succ) :
                    IsJumpLabel(FirstOf(ctx.out, ctx.MF.blocks[b].succ[j]))

\* a visible function with an indirect jump that has a successor went
\* through the pass
C11_Witness ==
    /\ Labelled /\ NotSkipped(ctx.MF) /\ Visible(ctx.MF)
    /\ \E b \in 1..Len(ctx.MF.blocks) :
          HasJump(ctx.MF.blocks[b]) /\ ctx.MF.blocks[b].succ # <<>>
    /\ IsCallLabel(FirstOf(ctx.out, 1))

----------------------------------------------------------------------------
(* ARMSilhouetteSFI: the base register of a store is bit-masked before the *)
(* store executes.                                                         *)

\* 0xc0000000 and 0x00800000 as 32-bit two's-complement words
SFI_MASK == -(2 ^ 30)
SFI_MASK2 == 2 ^ 23

SFIOptions == {"NoSFI", "SelSFI", "FullSFI"}

LightweightStores ==
    {"tSTRi", "tSTRspi", "t2STRi12", "t2STRi8", "tSTRHi", "t2STRHi12",
     "t2STRHi8", "tSTRBi", "t2STRBi12", "t2STRBi8", "t2STR_PRE", "t2STR_POST",
     "t2STRH_PRE", "t2STRH_POST", "t2STRB_PRE", "t2STRB_POST", "tSTRr",
     "t2STRs", "tSTRHr", "t2STRHs", "tSTRBr", "t2STRBs", "t2STRDi8",
     "t2STRD_PRE", "t2STRD_POST"}

HeavyweightStores ==
    {"VSTRD", "VSTRS", "tSTMIA_UPD", "t2STMIA", "t2STMIA_UPD", "t2STMDB",
     "t2STMDB_UPD", "tPUSH", "VSTMDIA", "VSTMDIA_UPD", "VSTMDDB_UPD",
     "VSTMSIA", "VSTMSIA_UPD", "VSTMSDB_UPD"}

\* the flags of an instruction; one built without flags has none
FlagsOf(I) == IF "flags" \in DOMAIN I THEN I.flags ELSE {}

\* the first loop with the lightweight stores collected under any SFI
sfiCollectsAnySFI(MI, SilhouetteSFI) ==
    IF "ShadowStack" \in FlagsOf(MI) THEN FALSE
    ELSE IF MI.op \in LightweightStores THEN SilhouetteSFI # "NoSFI"
    ELSE IF MI.op \in HeavyweightStores THEN SilhouetteSFI # "NoSFI"
    ELSE FALSE

\* the first loop of runOnMachineFunction: is the store MI put in Stores
sfiCollects(MI, SilhouetteSFI) ==
    IF "ShadowStack" \in FlagsOf(MI) THEN FALSE
    ELSE IF MI.op \in LightweightStores THEN SilhouetteSFI = "FullSFI"
    ELSE IF MI.op \in HeavyweightStores THEN SilhouetteSFI # "NoSFI"
    ELSE FALSE

immediateStoreOpcode(opcode) ==
    CASE opcode = "tSTRr" -> "tSTRi"
      [] opcode = "t2STRs" -> "t2STRi12"
      [] opcode = "tSTRHr" -> "tSTRHi"
      [] opcode = "t2STRHs" -> "t2STRHi12"
      [] opcode = "tSTRBr" -> "tSTRBi"
      [] opcode = "t2STRBs" -> "t2STRBi12"

\* doBitmasking without its second instruction
doBitmaskingOnce(MI, Reg) ==
    <<MInst("t2BICri", MI.cc, Reg, Reg, NoRegister, SFI_MASK, <<>>)>>

\* doBitmasking(MI, Reg, Insts): the instructions appended
doBitmasking(MI, Reg) ==
    <<MInst("t2BICri", MI.cc, Reg, Reg, NoRegister, SFI_MASK, <<>>),
      MInst("t2BICri", MI.cc, Reg, Reg, NoRegister, SFI_MASK2, <<>>)>>

\* what one case of the switch produces: the instructions to insert before
\* MI, MI as modified, and the instructions to insert after MI
Instrumented(before, MI, after) == [before |-> before, MI |-> MI, after |-> after]

\* handleSPUncommonImmediate(MI, SrcReg, Imm, InstsBefore, InstsAfter, SrcReg2)
handleSPUncommonImmediate(MI, SrcReg, Imm, SrcReg2) ==
    LET ScratchReg == SpillFrom(R0, {SrcReg, SrcReg2})
        Imm1       == Imm + 4
        addOpc     == IF Imm1 < 0 THEN "t2SUBri12" ELSE "t2ADDri12"
    IN  [before |-> doBitmasking(MI, SP)
                    \o <<MInst("tPUSH", MI.cc, NoRegister, SP, NoRegister, 0,
                               <<ScratchReg>>),
                         MInst(addOpc, MI.cc, ScratchReg, SP, NoRegister,
                               IF Imm1 < 0 THEN -Imm1 ELSE Imm1, <<>>)>>
                    \o doBitmasking(MI, ScratchReg),
         after  |-> <<MInst("tPOP", MI.cc, NoRegister, SP, NoRegister, 0,
                            <<ScratchReg>>)>>,
         reg    |-> ScratchReg]

\* "just bit-mask and store"
maskOnly(MI, BaseReg) == Instrumented(doBitmasking(MI, BaseReg), MI, <<>>)

\* "add, bit-mask, store, and subtract"; subtract is FALSE for a pre-indexed
\* store
addMaskSub(MI, BaseReg, Imm, subtract) ==
    Instrumented(addImmediateToRegister(MI, BaseReg, Imm)
                    \o doBitmasking(MI, BaseReg),
                 [MI EXCEPT !.imm = 0],
                 IF subtract THEN subtractImmediateFromRegister(MI, BaseReg, Imm)
                 ELSE <<>>)

\* the store addressed through the scratch register of
\* handleSPUncommonImmediate
viaScratch(MI, opcode, SrcReg, Imm, SrcReg2) ==
    LET h == handleSPUncommonImmediate(MI, SrcReg, Imm, SrcReg2)
    IN  Instrumented(h.before, [MI EXCEPT !.op = opcode, !.rn = h.reg, !.imm = 0],
                     h.after)

\* the switch of the second loop of runOnMachineFunction
instrumentStore(MI) ==
    CASE MI.op \in {"tSTRi", "tSTRHi", "tSTRBi"} -> maskOnly(MI, MI.rn)
      [] MI.op = "tSTRspi" ->
            IF 4 * MI.imm < 256 THEN maskOnly(MI, MI.rn)
            ELSE viaScratch(MI, "t2STRi12", MI.rt, 4 * MI.imm, NoRegister)
      [] MI.op \in {"t2STRi12", "t2STRHi12", "t2STRBi12"} ->
            IF MI.imm < 256 THEN maskOnly(MI, MI.rn)
            ELSE IF MI.rn = SP
                 THEN viaScratch(MI, MI.op, MI.rt, MI.imm, NoRegister)
                 ELSE addMaskSub(MI, MI.rn, MI.imm, TRUE)
      [] MI.op \in {"t2STRi8", "t2STRHi8", "t2STRBi8"} -> maskOnly(MI, MI.rn)
      [] MI.op \in {"t2STR_PRE", "t2STRH_PRE", "t2STRB_PRE", "t2STR_POST",
                    "t2STRH_POST", "t2STRB_POST"} -> maskOnly(MI, MI.rn)
      [] MI.op \in {"tSTRr", "tSTRHr", "tSTRBr"} ->
            Instrumented(<<MInst("t2ADDrr", MI.cc, MI.rn, MI.rn, MI.rm, 0, <<>>)>>
                            \o doBitmasking(MI, MI.rn),
                         [MI EXCEPT !.op = immediateStoreOpcode(MI.op),
                                    !.rm = NoRegister, !.imm = 0],
                         <<MInst("t2SUBrr", MI.cc, MI.rn, MI.rn, MI.rm, 0, <<>>)>>)
      [] MI.op \in {"t2STRs", "t2STRHs", "t2STRBs"} ->
            LET Imm == getSORegOpc_lsl(MI.imm)
            IN  Instrumented(
                    <<MInst("t2ADDrs", MI.cc, MI.rn, MI.rn, MI.rm, Imm, <<>>)>>
                       \o doBitmasking(MI, MI.rn),
                    [MI EXCEPT !.op = immediateStoreOpcode(MI.op),
                               !.rm = NoRegister, !.imm = 0],
                    <<MInst("t2SUBrs", MI.cc, MI.rn, MI.rn, MI.rm, Imm, <<>>)>>)
      [] MI.op \in {"t2STRDi8", "t2STRD_PRE"} ->
            IF MI.imm >= -256 /\ MI.imm < 256 THEN maskOnly(MI, MI.rn)
            ELSE IF MI.rn = SP
                 THEN viaScratch(MI, MI.op, MI.rt, MI.imm, MI.rm)
                 ELSE addMaskSub(MI, MI.rn, MI.imm, MI.op = "t2STRDi8")
      [] MI.op = "t2STRD_POST" -> maskOnly(MI, MI.rn)
      [] MI.op \in {"VSTRD", "VSTRS"} ->
            LET off == 4 * getAM5Offset(MI.imm)
                Imm == IF getAM5Op(MI.imm) = "sub" THEN -off ELSE off
                r   == IF MI.rn = SP
                       THEN viaScratch(MI, MI.op, NoRegister, Imm, NoRegister)
                       ELSE addMaskSub(MI, MI.rn, Imm, TRUE)
            IN  IF Imm >= -256 /\ Imm < 256 THEN maskOnly(MI, MI.rn)
                ELSE [r EXCEPT !.MI.imm = getAM5Opc("add", 0)]
      [] MI.op = "tPUSH" -> maskOnly(MI, SP)
      [] MI.op \in HeavyweightStores -> maskOnly(MI, MI.rn)

\* runOnMachineFunction on a function holding the one store MI: the block
\* after insertInstsBefore(MI, InstsBefore) and insertInstsAfter(MI, InstsAfter)
sfiPass(MI, SilhouetteSFI, denied) ==
    IF denied \/ ~sfiCollects(MI, SilhouetteSFI) THEN <<MI>>
    ELSE LET r == instrumentStore(MI)
         IN  insertInstsAfter(insertInstsBefore(<<r.MI>>, 1, r.before),
                              Len(r.before) + 1, r.after)

----------------------------------------------------------------------------
(* SpecSFI: one store is given to the SFI pass and the resulting sequence  *)
(* is executed from a register file whose registers point anywhere.        *)

\* values a register may hold before the store: every combination of the
\* masked bits occurs among them
HighValues == {2 ^ 29 + 2 ^ 12, SFI_MASK + SFI_MASK2 + 2 ^ 12,
               MinInt32 + 2 ^ 20, SFI_MASK2 + 2 ^ 29, -(2 ^ 13)}

SFIRegs(v) == [r \in (0..16) \cup (D0..(D1 + 1)) |->
                  IF r = CPSR THEN 0 ELSE AddW(v, 256 * r)]

\* the stores given to the pass
SFIInputs ==
    StoreInputs
    \cup {Store(op, rt, rn, rt + 1, imm, <<>>) :
            op \in {"t2STRD_PRE", "t2STRD_POST"}, rt \in {R0, R4},
            rn \in {R2, SP}, imm \in {-1020, -8, 8, 256}}
    \cup {Store(op, D0, rn, NoRegister, getAM5Opc(dir, off), <<>>) :
            op \in {"VSTRD", "VSTRS"}, rn \in {R0, SP}, dir \in {"add", "sub"},
            off \in {0, 2, 63, 64, 255}}
    \cup {Store(op, NoRegister, rn, NoRegister, 0, list) :
            op \in {"tSTMIA_UPD", "t2STMIA", "t2STMIA_UPD", "t2STMDB",
                    "t2STMDB_UPD"},
            rn \in {R0, SP}, list \in {<<R1, R2>>, <<R4>>}}
    \cup {Store(op, NoRegister, rn, NoRegister, 0, list) :
            op \in {"VSTMDIA", "VSTMDIA_UPD", "VSTMDDB_UPD"},
            rn \in {R0, SP}, list \in {<<D0>>, <<D0, D1>>}}

InitSFI ==
    /\ MBB = <<>> /\ preMBB = <<>> /\ lastEdit = NoEdit /\ edits = 0
    /\ \E MI \in SFIInputs, v \in HighValues, opt \in SFIOptions :
          /\ prog = <<MI>>
          /\ regs = SFIRegs(v)
          /\ ctx = [kind |-> "sfi", MI |-> MI, SilhouetteSFI |-> opt,
                    passed |-> FALSE, instrumented |-> FALSE, at |-> 1,
                    hist |-> <<>>]
    /\ ip = 1
    /\ mem = EmptyMem

\* the pass runs on the function holding the store
RunSFIPass ==
    /\ ctx.kind = "sfi" /\ ~ctx.passed
    /\ prog' = sfiPass(ctx.MI, ctx.SilhouetteSFI, FALSE)
    /\ LET collected == sfiCollects(ctx.MI, ctx.SilhouetteSFI)
       IN  ctx' = [ctx EXCEPT !.passed = TRUE, !.instrumented = collected,
                              !.at = IF collected
                                     THEN Len(instrumentStore(ctx.MI).before) + 1
                                     ELSE 1]
    /\ UNCHANGED <<ip, regs, mem>>
    /\ UNCHANGED editorVars

\* the processor executes the next instruction; hist keeps the register file
\* each instruction started from
StepSFI ==
    /\ ctx.kind = "sfi" /\ ctx.passed
    /\ ip <= Len(prog)
    /\ LET s1 == Exec(regs, mem, prog[ip])
       IN  /\ regs' = s1.regs
           /\ mem' = s1.mem
    /\ ctx' = [ctx EXCEPT !.hist = Append(@, regs)]
    /\ ip' = ip + 1
    /\ UNCHANGED prog
    /\ UNCHANGED editorVars

NextSFI == RunSFIPass \/ StepSFI

SpecSFI == InitSFI /\ [][NextSFI]_vars

----------------------------------------------------------------------------
(* Claims about the masked stores.                                         *)

\* bit i of a 32-bit two's-complement word
BitW(x, i) == IF i = 31 THEN (IF x < 0 THEN 1 ELSE 0) ELSE (x \div (2 ^ i)) % 2

MaskedBits == {31, 30, 23}

IsMask(I, Reg, Mask) ==
    I.op = "t2BICri" /\ I.rt = Reg /\ I.rn = Reg /\ I.imm = Mask

\* does instruction I write register r
Defines(I, r) ==
    CASE I.op \in {"tPOP", "t2LDMIA_UPD"} -> r = I.rn \/ InList(r, I.list)
      [] I.op \in {"tPUSH", "t2STMDB_UPD", "tSTMIA_UPD", "t2STMIA_UPD",
                   "VSTMDIA_UPD", "VSTMDDB_UPD", "t2STRD_PRE", "t2STRD_POST",
                   "t2STR_PRE", "t2STRH_PRE", "t2STRB_PRE", "t2STR_POST",
                   "t2STRH_POST", "t2STRB_POST"} -> r = I.rn
      [] I.op \in LightweightStores \cup HeavyweightStores -> FALSE
      [] OTHER -> r = I.rt

\* the store of the instrumented sequence has executed
StoreMasked == ctx.kind = "sfi" /\ ctx.instrumented /\ ip > ctx.at

----------------------------------------------------------------------------
(* ARMSilhouetteCFI: the target register of an indirect branch or call is  *)
(* bit-masked before the transfer.                                         *)

LSB(num) == num % 2
InvertLSB(num) == IF num % 2 = 0 THEN num + 1 ELSE num - 1

\* the condition FindPrecedingIT computes for the Rank-th instruction of
\* the block of a header with first condition Cond1 and mask Mask
CondAtRank(Cond1, Mask, Rank) ==
    IF Rank = 1 \/ LSB(Cond1) = LSB(Mask \div Pow2(5 - Rank)) THEN Cond1
    ELSE InvertLSB(Cond1)

NoHeader == [it |-> 0, Rank |-> 0, IsFull |-> FALSE]

RECURSIVE FindPrecedingITWalk(_, _, _)
\* the k-th step back from MI = S[p]
FindPrecedingITWalk(S, p, k) ==
    IF k > 4 \/ p - k < 1 THEN NoHeader
    ELSE IF S[p - k].op = "t2IT"
         THEN LET Mask == S[p - k].mask % 16
              IN  IF k > 1 /\ Mask % Pow2(5 - k) = 0 THEN NoHeader
                  ELSE [it |-> p - k, Rank |-> k,
                        IsFull |-> (k = 4 \/ LSB(Mask) = 1)]
         ELSE FindPrecedingITWalk(S, p, k + 1)

\* FindPrecedingIT(MI, CC, Rank, IsFull)
FindPrecedingIT(S, p) == FindPrecedingITWalk(S, p, 1)

\* SplitFullITBlock(OldIT, MI, CC): the block afterwards.  The function ends
\* without a return statement, so the header its caller goes on with is not
\* determined: ret says whether it is the new header ("new"), the old one
\* ("old") or no instruction of the block ("wild").
SplitFullITBlock(S, it, p, CC) ==
    LET m    == S[it].mask % 16
        set1 == IF Bit(m, 1) = 1 THEN m ELSE m + 2
        Mask == set1 - (set1 % 2)
    IN  InsertAt([S EXCEPT ![it].mask = Mask], p, <<ITInst(0, CC, 8)>>)

SplitReturns == {"new", "old", "wild"}

\* the bit-masking instruction: BFC Reg, with ~0x2 as the bits kept
BFCInst(Reg, CC, keep) ==
    [id |-> 0, op |-> "t2BFC", cc |-> CC, rt |-> Reg, rn |-> Reg,
     rm |-> NoRegister, imm |-> keep, list |-> <<>>]

\* InsertBFC with a mask that also clears the LSB
InsertBFCAndLSB(S, p, Reg) == InsertAt(S, p, <<BFCInst(Reg, ARMCC_AL, NotW(3))>>)

\* InsertBFC(MI, Reg)
InsertBFC(S, p, Reg) == InsertAt(S, p, <<BFCInst(Reg, ARMCC_AL, NotW(2))>>)

\* InsertBFCWithinITBlock(IT, MI, CC, Rank, Reg); it = 0 when IT is no
\* instruction of the block
InsertBFCWithinITBlock(S, it, p, CC, Rank, Reg) ==
    LET m     == IF it = 0 THEN 0 ELSE S[it].mask % 16
        Mask1 == IF Rank # 3 THEN m \div 2 ELSE OrW(m, 1)
        bit   == LSB(CC) * Pow2(3 - Rank)
        Mask  == OrW(AndW(Mask1, bit), bit)
        S1    == IF it = 0 THEN S ELSE [S EXCEPT ![it].mask = Mask]
    IN  InsertAt(S1, p, <<BFCInst(Reg, CC, NotW(2))>>)

JumpTableOps == {"tBR_JTr", "tTBB_JT", "tTBH_JT", "t2BR_JT", "t2TBB_JT",
                 "t2TBH_JT"}

\* BitMaskIndirectBranchCall(MI) on the block S holding MI at position p
BitMaskIndirectBranchCall(S, p, ret) ==
    LET MI == S[p]
    IN  CASE MI.op \in {"tBRIND", "tBX", "tBXNS", "tBLXr", "tBLXNSr"} ->
                LET f == FindPrecedingIT(S, p)
                IN  IF f.it = 0 THEN InsertBFC(S, p, MI.rm)
                    ELSE IF f.IsFull
                         THEN InsertBFCWithinITBlock(
                                 SplitFullITBlock(S, f.it, p, MI.cc),
                                 CASE ret = "new" -> p
                                   [] ret = "old" -> f.it
                                   [] OTHER -> 0,
                                 p + 1, MI.cc, 1, MI.rm)
                         ELSE InsertBFCWithinITBlock(S, f.it, p, MI.cc, f.Rank,
                                                     MI.rm)
          [] MI.op \in JumpTableOps -> S
          [] MI.op \in {"tBX_CALL", "tTAILJMPr"} -> InsertBFC(S, p, MI.rm)

\* the ids of the instructions of S with an opcode of ops, in program order
CollectOps(S, ops) == SelectSeq([j \in 1..Len(S) |-> S[j]], LAMBDA I : I.op \in ops)

RECURSIVE MaskAll(_, _, _)
\* the loops over IndirectBranches and IndirectCalls, for one block
MaskAll(S, MIs, ret) ==
    IF MIs = <<>> THEN S
    ELSE MaskAll(BitMaskIndirectBranchCall(S, PositionOf(S, Head(MIs).id), ret),
                 Tail(MIs), ret)

\* the pass without the two alignment steps
cfiPassNoAlign(MF, ret) ==
    [MF EXCEPT
        !.blocks = [b \in 1..Len(MF.blocks) |->
            [MF.blocks[b] EXCEPT
                !.insts = MaskAll(MaskAll(@, CollectOps(@, JumpOps \cup JumpTableOps),
                                          ret),
                                  CollectOps(@, CallOps), ret)]]]

\* ARMSilhouetteCFI::runOnMachineFunction: the deny list is not consulted
cfiPass(MF, ret) ==
    LET hasBranch == \E b \in 1..Len(MF.blocks) :
                        CollectOps(MF.blocks[b].insts,
                                   JumpOps \cup JumpTableOps) # <<>>
        visible   == MF.linkage \notin {"internal", "private"} \/ MF.addrTaken
    IN  [MF EXCEPT
            !.blocks = [b \in 1..Len(MF.blocks) |->
                [MF.blocks[b] EXCEPT
                    !.align = IF hasBranch THEN Max(@, 2) ELSE @,
                    !.insts = MaskAll(MaskAll(@, CollectOps(@, JumpOps \cup JumpTableOps),
                                              ret),
                                      CollectOps(@, CallOps), ret)]],
            !.align = IF visible THEN Max(@, 2) ELSE @]

----------------------------------------------------------------------------
(* SpecAlign: a function with one indirect transfer, inside or outside an  *)
(* IT block, is given to the bit-masking pass and its block is executed.   *)

\* a transfer through Reg under condition CC
TransferInst(id, op, Reg, CC) == [FInst(id, op, Reg) EXCEPT !.cc = CC]

\* a block: np instructions, then either the transfer alone or a header
\* (Cond1, Mask) whose block ends with the transfer
AlignBlocks ==
    {[i \in 1..np |-> PlainInst(i)] \o <<FInst(np + 1, op, R0)>> :
        np \in 0..1,
        op \in JumpOps \cup CallOps \cup {"tBR_JTr", "tBL"}}
    \cup
    {LET n == getITBlockSize(Mask)
     IN  [i \in 1..np |-> PlainInst(i)]
         \o <<ITInst(np + 1, Cond1, Mask)>>
         \o [i \in 1..(n - 1) |-> PlainInst(np + 1 + i)]
         \o <<TransferInst(np + 1 + n, op, R0, CondAtRank(Cond1, Mask, n))>> :
        np \in 0..1, Cond1 \in Conds, Mask \in 1..15,
        op \in {"tBRIND", "tBX", "tBXNS", "tBLXr", "tBLXNSr"}}

\* values the target register may hold
TargetValues == {CodeBase, CodeBase + 2, CodeBase + 3, -1, MinInt32 + 6}

InitAlign ==
    /\ MBB = <<>> /\ preMBB = <<>> /\ lastEdit = NoEdit /\ edits = 0
    /\ \E S \in AlignBlocks, linkage \in {"external", "internal"},
          v \in TargetValues, z \in 0..1 :
          /\ prog = S
          /\ regs = [r \in 0..16 |-> IF r = CPSR THEN z ELSE v]
          /\ ctx = [kind |-> "align", v |-> v, masked |-> FALSE,
                    MF |-> MFunc(<<[insts |-> S, succ |-> <<>>, align |-> 1]>>,
                                 linkage, FALSE, FALSE, FALSE)
                           @@ [align |-> 1]]
    /\ ip = 1
    /\ mem = EmptyMem

\* the pass runs on the function
RunAlignPass ==
    /\ ctx.kind = "align" /\ ~ctx.masked
    /\ \E ret \in SplitReturns :
          LET out == cfiPass(ctx.MF, ret)
          IN  /\ prog' = out.blocks[1].insts
              /\ ctx' = [ctx EXCEPT !.masked = TRUE] @@ [out |-> out]
    /\ UNCHANGED <<ip, regs, mem>>
    /\ UNCHANGED editorVars

\* the processor executes the next instruction of the block
StepAlign ==
    /\ ctx.kind = "align" /\ ctx.masked
    /\ ip <= Len(prog)
    /\ LET s1 == Exec(regs, mem, prog[ip])
       IN  /\ regs' = s1.regs
           /\ mem' = s1.mem
    /\ ip' = ip + 1
    /\ UNCHANGED <<prog, ctx>>
    /\ UNCHANGED editorVars

NextAlign == RunAlignPass \/ StepAlign

SpecAlign == InitAlign /\ [][NextAlign]_vars

----------------------------------------------------------------------------
(* Claims about the bit-masked transfers.                                  *)

\* the conditions a header gives the instructions of its block, as
\* FindPrecedingIT reads a header
HeaderCondsCFI(cc, mask) ==
    IF mask % 16 = 0 THEN <<>>
    ELSE [j \in 1..getITBlockSize(mask % 16) |-> CondAtRank(cc, mask % 16, j)]

RECURSIVE ReplayCFI(_, _, _)
ReplayCFI(S, i, pending) ==
    IF i > Len(S) THEN <<>>
    ELSE IF S[i].op = "t2IT"
         THEN <<[gov |-> pending # <<>>, cc |-> ARMCC_AL, hdr |-> TRUE]>>
              \o ReplayCFI(S, i + 1, HeaderCondsCFI(S[i].cc, S[i].mask))
         ELSE IF pending = <<>>
              THEN <<[gov |-> FALSE, cc |-> ARMCC_AL, hdr |-> FALSE]>>
                   \o ReplayCFI(S, i + 1, <<>>)
              ELSE <<[gov |-> TRUE, cc |-> Head(pending), hdr |-> FALSE]>>
                   \o ReplayCFI(S, i + 1, Tail(pending))

MaskedOps == JumpOps \cup CallOps

\* the block given to the pass and the position of its transfer
AlignIn == ctx.MF.blocks[1].insts
TransferAt(S) == CHOOSE j \in 1..Len(S) : S[j].id = Len(AlignIn)

\* the pass has run on a block whose transfer a header governs
GovernedTransferMasked ==
    /\ ctx.kind = "align" /\ ctx.masked
    /\ AlignIn[Len(AlignIn)].op \in MaskedOps
    /\ ReplayCFI(AlignIn, 1, <<>>)[Len(AlignIn)].gov

\* C13: after the bit-masking pass on a governed indirect branch or call,
\* every header mask is non-zero, the headers govern exactly the original
\* governed instructions plus the one mask instruction, the mask instruction
\* and the transfer execute under the transfer's original condition, and
\* every other governed instruction keeps its original condition.
C13_MaskingKeepsGovernance ==
    GovernedTransferMasked =>
        LET G0 == ReplayCFI(AlignIn, 1, <<>>)
            G1 == ReplayCFI(prog, 1, <<>>)
            t  == TransferAt(prog)
            at == [j \in 1..Len(AlignIn) |->
                      CHOOSE k \in 1..Len(prog) : prog[k].id = AlignIn[j].id]
        IN  /\ \A k \in 1..Len(prog) : prog[k].op = "t2IT" => prog[k].mask % 16 # 0
            /\ {k \in 1..Len(prog) : G1[k].gov /\ ~G1[k].hdr}
                  = {at[j] : j \in {i \in 1..Len(AlignIn) : G0[i].gov /\ ~G0[i].hdr}}
                    \cup {t - 1}
            /\ prog[t - 1].op = "t2BFC"
            /\ G1[t - 1].cc = G0[Len(AlignIn)].cc
            /\ G1[t].cc = G0[Len(AlignIn)].cc
            /\ \A j \in 1..Len(AlignIn) : G0[j].gov => G1[at[j]].cc = G0[j].cc

\* a transfer alone in the block of a header with an even condition code has
\* been masked and the header is left with a zero mask
C13_EvenConditionZeroMask ==
    /\ GovernedTransferMasked
    /\ \E k \in 1..Len(prog) :
          /\ prog[k].op = "t2IT" /\ prog[k].mask % 16 = 0
          /\ prog[k].cc % 2 = 0
          /\ prog[k + 1].op = "t2BFC"

\* C14: immediately before every register-indirect branch or call that is
\* not a jump-table branch the pass has inserted one instruction on the
\* transfer's target register, and once that instruction has executed the
\* register holds its value v with bit 1 cleared and every other bit,
\* bit 0 included, unchanged.
C14_ClearsBitOneOnly ==
    (ctx.kind = "align" /\ ctx.masked /\ AlignIn[Len(AlignIn)].op \in MaskedOps) =>
        LET t   == TransferAt(prog)
            Reg == prog[t].rm
        IN  /\ t > 1 /\ prog[t - 1].op = "t2BFC"
            /\ prog[t - 1].rt = Reg /\ prog[t - 1].rn = Reg
            /\ Len(prog) = Len(AlignIn) + 1
                  \/ (Len(prog) = Len(AlignIn) + 2 /\ prog[t - 2].op = "t2IT")
            /\ (ip = t /\ CondPassed(regs, prog[t - 1].cc)) =>
                  \A i \in 0..31 :
                     BitW(regs[Reg], i) = IF i = 1 THEN 0 ELSE BitW(ctx.v, i)

\* the inserted instruction has executed on a value whose bits 1 and 0 are
\* both set and the transfer is next
C14_Witness ==
    /\ ctx.kind = "align" /\ ctx.masked
    /\ AlignIn[Len(AlignIn)].op \in MaskedOps
    /\ ip = TransferAt(prog)
    /\ CondPassed(regs, prog[ip - 1].cc)
    /\ BitW(ctx.v, 1) = 1 /\ BitW(ctx.v, 0) = 1
    /\ regs[prog[ip].rm] = ctx.v - 2

----------------------------------------------------------------------------
(* SpecMulti: a store-multiple or push is rewritten by the privilege-      *)
(* demotion pass and the emitted sequence is executed.                     *)

\* the longest register list
MaxList == 3

\* ascending register lists drawn from R0, R1, R2, R4
RegLists == {L \in UNION {[1..n -> {R0, R1, R2, R4}] : n \in 1..MaxList} :
                \A j \in 1..(Len(L) - 1) : L[j] < L[j + 1]}

\* the stores given to the pass: a list may hold the base register when the
\* instruction has no write-back, or when the base is its lowest register
MultiInputs ==
    {Store(op, NoRegister, rn, NoRegister, 0, list) :
        op \in {"t2STMIA", "t2STMDB"}, rn \in {R0, R1, R5, SP}, list \in RegLists}
    \cup {MI \in {Store(op, NoRegister, rn, NoRegister, 0, list) :
                     op \in {"tSTMIA_UPD", "t2STMIA_UPD", "t2STMDB_UPD"},
                     rn \in {R0, R1, R5, SP}, list \in RegLists} :
            InList(MI.rn, MI.list) => (MI.op = "tSTMIA_UPD" /\ MI.list[1] = MI.rn)}
    \cup {Store("tPUSH", NoRegister, SP, NoRegister, 0, list \o tail) :
            list \in RegLists, tail \in {<<>>, <<LR>>}}

InitMulti ==
    /\ MBB = <<>> /\ preMBB = <<>> /\ lastEdit = NoEdit /\ edits = 0
    /\ \E MI \in MultiInputs :
          /\ prog = <<MI>>
          /\ regs = InitRegs
          /\ ctx = [kind |-> "store", MI |-> MI, FreeRegs |-> <<>>,
                    regs0 |-> regs, rewritten |-> FALSE, irqs |-> 0,
                    last |-> NoWrite]
    /\ ip = 1
    /\ mem = EmptyMem

SpecMulti == InitMulti /\ [][NextStore]_vars

\* C15: for a store-multiple (increment-after or decrement-before, with or
\* without write-back) or a push, whatever the register list and also when
\* the list holds the base register, the emitted sequence writes each listed
\* register's original value to the address the original instruction writes
\* it to and leaves the base register, and every other register, as the
\* original instruction leaves it.
C15_MultiStoreSameAsOriginal ==
    (/\ StoreDone /\ ctx.irqs = 0
     /\ ctx.MI.op \in {"tSTMIA_UPD", "t2STMIA_UPD", "t2STMIA", "t2STMDB",
                       "t2STMDB_UPD", "tPUSH"}) => SameAsOriginal

\* C15 case: stmdb r0, {r0, r1} has been rewritten and run, and the word
\* the original fills with the base register holds the lowered base
C15_BaseInListStoresLoweredBase ==
    /\ StoreDone /\ ctx.irqs = 0
    /\ ctx.MI = Store("t2STMDB", NoRegister, R0, NoRegister, 0, <<R0, R1>>)
    /\ Load32(OrigEffect.mem, SubW(ctx.regs0[R0], 8)) = ctx.regs0[R0]
    /\ Load32(mem, SubW(ctx.regs0[R0], 8)) = SubW(ctx.regs0[R0], 8)
    /\ regs = OrigEffect.regs

\* the same for every list that does not hold the base of a
\* decrement-before store without write-back
C15_SameUnlessLoweredBaseStored ==
    (/\ StoreDone /\ ctx.irqs = 0
     /\ ctx.MI.op \in {"tSTMIA_UPD", "t2STMIA_UPD", "t2STMIA", "t2STMDB",
                       "t2STMDB_UPD", "tPUSH"}
     /\ ~(ctx.MI.op = "t2STMDB" /\ InList(ctx.MI.rn, ctx.MI.list)))
        => SameAsOriginal

----------------------------------------------------------------------------
(* SpecSpill: one store, among them the floating-point stores and the      *)
(* SP-relative stores, is rewritten with none, one or two free registers   *)
(* and the resulting sequence is executed.                                 *)

SpillRegs == [r \in (0..16) \cup (D0..(D1 + 1)) |->
                 IF r \in 0..16 THEN InitRegs[r] ELSE 2 ^ 20 + 4369 * r]

\* the stores given to the pass
SpillInputs ==
    {MI \in StoreInputs : MI.rn = SP /\ MI.op # "tPUSH"}
    \cup {Store(op, D0, rn, NoRegister, getAM5Opc(dir, off), <<>>) :
            op \in {"VSTRD", "VSTRS"}, rn \in {R0, R2, SP}, dir \in {"add", "sub"},
            off \in {0, 1, 2, 61, 62, 63, 64, 255}}
    \cup {Store(op, NoRegister, rn, NoRegister, 0, list) :
            op \in {"VSTMDIA", "VSTMDIA_UPD", "VSTMDDB_UPD"},
            rn \in {R0, R2, SP}, list \in {<<D0>>, <<D0, D1>>}}
    \cup {Store(op, NoRegister, rn, NoRegister, 0, list) :
            op \in {"VSTMSIA", "VSTMSIA_UPD", "VSTMSDB_UPD"},
            rn \in {R0, R2, SP}, list \in {<<D0>>, <<D0, D0 + 1, D1>>}}

InitSpill ==
    /\ MBB = <<>> /\ preMBB = <<>> /\ lastEdit = NoEdit /\ edits = 0
    /\ \E MI \in SpillInputs, offv \in OffsetValues :
          /\ MI.rm = R2 \/ offv = 8
          /\ prog = <<MI>>
          /\ regs = IF MI.op = "t2STRs" /\ MI.rm = R2
                    THEN [SpillRegs EXCEPT ![R2] = offv] ELSE SpillRegs
          /\ \E F \in FreeRegChoices(MI) :
                ctx = [kind |-> "store", MI |-> MI, FreeRegs |-> F,
                       regs0 |-> regs, rewritten |-> FALSE, irqs |-> 0,
                       last |-> NoWrite]
    /\ ip = 1
    /\ mem = EmptyMem

SpecSpill == InitSpill /\ [][NextStore]_vars

\* the registers the sequence P spills: those its pops restore
SpilledRegs(P) ==
    UNION {{P[j].list[k] : k \in 1..Len(P[j].list)} :
             j \in {i \in 1..Len(P) : P[i].op = "tPOP"}}

\* after an uninterrupted sequence that spilled, memory holds what the
\* original store writes, and SP and the spilled registers are the original's
SpillCompensated ==
    /\ \A a \in DOMAIN OrigEffect.mem : Load8(mem, a) = OrigEffect.mem[a]
    /\ regs[SP] = OrigEffect.regs[SP]
    /\ \A r \in SpilledRegs(prog) : regs[r] = OrigEffect.regs[r]

\* C16: when the rewriting spills scratch registers, every emitted store
\* writes to the address the original store writes, and after the sequence
\* SP and every spilled register hold the values the original would leave
C16_SpillCompensated ==
    (StoreDone /\ ctx.irqs = 0 /\ SpilledRegs(prog) # {}) => SpillCompensated

\* a spilled register comes back changed: the store wrote into the spill slot
C16_SpilledRegisterClobbered ==
    /\ StoreDone /\ ctx.irqs = 0 /\ ctx.MI.rn = SP
    /\ \E r \in SpilledRegs(prog) : regs[r] # OrigEffect.regs[r]

\* the compensation holds for every store that does not write below SP
C16_CompensatedAboveSP ==
    (StoreDone /\ ctx.irqs = 0 /\ SpilledRegs(prog) # {}
       /\ ~OriginalStoresBelowSP) => SpillCompensated

\* a nested spill: three words are pushed in all and the store lands at the
\* original address
C16_NestedSpillCompensated ==
    /\ StoreDone /\ ctx.irqs = 0 /\ ctx.MI.rn = SP
    /\ Cardinality(SpilledRegs(prog)) = 3
    /\ SpillCompensated

----------------------------------------------------------------------------
(* The two store passes over a whole block.                                *)

\* ARMSilhouetteSTR2STRT::runOnMachineFunction, the first loop with the tag
\* test left out
str2strtCollectsTagged(MI, SilhouetteSFI) ==
    IF MI.op \in LightweightStores THEN SilhouetteSFI # "FullSFI"
    ELSE IF MI.op \in HeavyweightStores THEN SilhouetteSFI = "NoSFI"
    ELSE FALSE

\* ARMSilhouetteSTR2STRT::runOnMachineFunction, the first loop: is MI put
\* in Stores
str2strtCollects(MI, SilhouetteSFI) ==
    IF "ShadowStack" \in FlagsOf(MI) THEN FALSE
    ELSE IF MI.op \in LightweightStores THEN SilhouetteSFI # "FullSFI"
    ELSE IF MI.op \in HeavyweightStores THEN SilhouetteSFI = "NoSFI"
    ELSE FALSE

\* the second loop: every collected store is replaced by its new
\* instructions. The stores are taken from the last to the first, which
\* leaves the positions of the ones still to come as they were collected.
RECURSIVE rewriteAll(_, _, _, _)
rewriteAll(Blk, p, SilhouetteSFI, FreeRegs) ==
    IF p = 0 THEN Blk
    ELSE rewriteAll(IF str2strtCollects(Blk[p], SilhouetteSFI)
                    THEN rewriteStore(Blk, p, FreeRegs) ELSE Blk,
                    p - 1, SilhouetteSFI, FreeRegs)

\* ARMSilhouetteSTR2STRT::runOnMachineFunction on a function of one block
str2strtPass(Blk, SilhouetteSFI, FreeRegs, denied, privileged) ==
    IF denied \/ privileged THEN Blk
    ELSE rewriteAll(Blk, Len(Blk), SilhouetteSFI, FreeRegs)

\* ARMSilhouetteSFI::runOnMachineFunction, the second loop
RECURSIVE instrumentAll(_, _, _)
instrumentAll(Blk, p, SilhouetteSFI) ==
    IF p = 0 THEN Blk
    ELSE instrumentAll(
            IF sfiCollects(Blk[p], SilhouetteSFI)
            THEN With(instrumentStore(Blk[p]), LAMBDA r :
                    insertInstsAfter(
                        insertInstsBefore([Blk EXCEPT ![p] = r.MI], p, r.before),
                        p + Len(r.before), r.after))
            ELSE Blk,
            p - 1, SilhouetteSFI)

\* ARMSilhouetteSFI::runOnMachineFunction on a function of one block: only
\* the deny list is consulted
sfiBlockPass(Blk, SilhouetteSFI, denied, privileged) ==
    IF denied THEN Blk ELSE instrumentAll(Blk, Len(Blk), SilhouetteSFI)

----------------------------------------------------------------------------
(* SpecTag: a block holding a tagged store, or the function shadow-stack   *)
(* Setup has transformed, goes through the two store passes in either      *)
(* order under each SFI configuration.                                     *)

Tagged(MI) == [f \in DOMAIN MI \cup {"flags"} |->
                 IF f = "flags" THEN {"ShadowStack"} ELSE MI[f]]

IsStore(I) == I.op \in LightweightStores \cup HeavyweightStores

IsTaggedStore(I) == IsStore(I) /\ "ShadowStack" \in FlagsOf(I)

\* the tagged stores: every opcode the two passes know
TaggedInputs == {Tagged(MI) : MI \in SpillInputs \cup MultiInputs \cup StoreInputs}

\* the stores without a tag that may stand next to a tagged one
Neighbours ==
    {<<>>, <<Store("t2STRi12", R0, R1, NoRegister, 8, <<>>)>>,
     <<Store("tPUSH", NoRegister, SP, NoRegister, 0, <<R4, LR>>)>>}

InitTag ==
    /\ MBB = <<>> /\ preMBB = <<>> /\ lastEdit = NoEdit /\ edits = 0
    /\ \E opt \in SFIOptions, F \in {<<>>, <<R12>>} :
          \/ \E T \in TaggedInputs, pre \in Neighbours, post \in Neighbours :
                /\ prog = pre \o <<T>> \o post
                /\ ctx = [kind |-> "tag", setup |-> "none", in |-> prog,
                          SilhouetteSFI |-> opt, FreeRegs |-> F, K |-> 0,
                          subInstr |-> NULL, ran |-> {}, last |-> "none",
                          before |-> prog]
          \/ \E pushOp \in {"tPUSH", "t2STMDB_UPD"}, K \in ShadowOffsets,
                sub \in {NULL, 3} :
                /\ sub = NULL \/ ~(K - 4 \in 0..4095)
                /\ prog = Function(pushOp, "tPOP_RET")
                /\ ctx = [kind |-> "tag", setup |-> "due", in |-> prog,
                          SilhouetteSFI |-> opt, FreeRegs |-> F, K |-> K,
                          subInstr |-> sub, ran |-> {}, last |-> "none",
                          before |-> prog]
    /\ ip = 1
    /\ regs = InitRegs
    /\ mem = EmptyMem

\* the shadow-stack pass transforms the function
RunSetup ==
    /\ ctx.kind = "tag" /\ ctx.setup = "due"
    /\ prog' = shadowStackPass(prog, ctx.K, ctx.subInstr)
    /\ ctx' = [ctx EXCEPT !.setup = "done", !.before = prog']
    /\ UNCHANGED <<ip, regs, mem>>
    /\ UNCHANGED editorVars

\* the privilege-demotion pass runs on the block
RunDemotion ==
    /\ ctx.kind = "tag" /\ ctx.setup # "due" /\ "STR2STRT" \notin ctx.ran
    /\ prog' = str2strtPass(prog, ctx.SilhouetteSFI, ctx.FreeRegs, FALSE, FALSE)
    /\ ctx' = [ctx EXCEPT !.ran = @ \cup {"STR2STRT"}, !.last = "STR2STRT",
                          !.before = prog]
    /\ UNCHANGED <<ip, regs, mem>>
    /\ UNCHANGED editorVars

\* the address-masking pass runs on the block
RunMasking ==
    /\ ctx.kind = "tag" /\ ctx.setup # "due" /\ "SFI" \notin ctx.ran
    /\ prog' = sfiBlockPass(prog, ctx.SilhouetteSFI, FALSE, FALSE)
    /\ ctx' = [ctx EXCEPT !.ran = @ \cup {"SFI"}, !.last = "SFI",
                          !.before = prog]
    /\ UNCHANGED <<ip, regs, mem>>
    /\ UNCHANGED editorVars

NextTag == RunSetup \/ RunDemotion \/ RunMasking

SpecTag == InitTag /\ [][NextTag]_vars

\* the instructions of block Blk taken apart at its tagged stores: the runs
\* of instructions between them
RECURSIVE SplitAtTagged(_)
SplitAtTagged(Blk) ==
    IF \A j \in 1..Len(Blk) : ~IsTaggedStore(Blk[j]) THEN <<Blk>>
    ELSE LET p == CHOOSE j \in 1..Len(Blk) :
                     IsTaggedStore(Blk[j]) /\ \A k \in 1..(j - 1) : ~IsTaggedStore(Blk[k])
         IN  <<SubSeq(Blk, 1, p - 1), <<Blk[p]>>>>
             \o SplitAtTagged(SubSeq(Blk, p + 1, Len(Blk)))

\* the pass that ran last, applied to a run of instructions
LastPass(Blk) ==
    IF ctx.last = "SFI" THEN sfiBlockPass(Blk, ctx.SilhouetteSFI, FALSE, FALSE)
    ELSE str2strtPass(Blk, ctx.SilhouetteSFI, ctx.FreeRegs, FALSE, FALSE)

\* the block the last pass produced is the tagged stores of its input, each
\* as it was, between what the pass makes of the runs that separate them
TaggedStoresUntouched ==
    LET S == SplitAtTagged(ctx.before)
    IN  prog = Concat([j \in 1..Len(S) |->
                         IF Len(S[j]) = 1 /\ IsTaggedStore(S[j][1]) THEN S[j]
                         ELSE LastPass(S[j])])

\* the stores Setup has put into the function
SetupStores ==
    {j \in 1..Len(prog) : IsStore(prog[j])
                          /\ \A k \in 1..Len(ctx.in) : ctx.in[k].id # prog[j].id}

\* C17: a store with the shadow-stack tag is never collected nor modified by
\* the privilege-demotion pass or the address-masking pass under any SFI
\* configuration, nothing is inserted around it on its account, and the
\* store emitted by shadow-stack Setup carries the tag
C17_TaggedStoreUntouched ==
    /\ (ctx.kind = "tag" /\ ctx.last # "none") => TaggedStoresUntouched
    /\ (ctx.kind = "tag" /\ ctx.setup = "done" /\ ctx.last = "none") =>
          \A j \in SetupStores : IsTaggedStore(prog[j])

\* full SFI: the masking pass has instrumented the push of a function that
\* Setup transformed and the demotion pass left alone, and the tagged store
\* of Setup is still in the block
C17_Witness ==
    /\ ctx.kind = "tag" /\ ctx.setup = "done" /\ ctx.last = "SFI"
    /\ ctx.ran = {"SFI", "STR2STRT"} /\ ctx.SilhouetteSFI = "FullSFI"
    /\ prog # ctx.before
    /\ \E j \in 1..Len(prog) :
          IsTaggedStore(prog[j]) /\ prog[j].op = "t2STRi12" /\ prog[j].rt = LR

\* no SFI: the demotion pass has rewritten the neighbours of a tagged store
C17_DemotionWitness ==
    /\ ctx.kind = "tag" /\ ctx.setup = "none" /\ ctx.last = "STR2STRT"
    /\ ctx.SilhouetteSFI = "NoSFI"
    /\ Len(prog) > Len(ctx.before) + 1
    /\ \E j \in 1..Len(prog) : IsTaggedStore(prog[j])

----------------------------------------------------------------------------
(* SpecDeny: a function that is on the deny list, in the privileged        *)
(* section, both or neither is given to one of the five passes.            *)

Passes == {"CFI", "LabelCFI", "SFI", "STR2STRT", "ShadowStack"}

\* ARMSilhouetteShadowStack::runOnMachineFunction on a function of one
\* block: only the deny list is consulted
shadowStackRun(Blk, imm, subInstr, denied, privileged) ==
    IF denied THEN Blk ELSE shadowStackPass(Blk, imm, subInstr)

\* a function with a prologue, a store, an indirect transfer and an epilogue
DenyFunctions ==
    {MFunc(<<[insts |-> <<SInst(1, "tPUSH", NoRegister, SP, 0, SavedRegs \o <<LR>>,
                                {"FrameSetup"}),
                          SInst(2, stOp, R0, R1, 8, <<>>, {}),
                          [SInst(3, trOp, NoRegister, NoRegister, 0, <<>>, {})
                             EXCEPT !.rm = R0],
                          SInst(4, "tPOP_RET", NoRegister, SP, 0,
                                SavedRegs \o <<PC>>, {"FrameDestroy"})>>,
               succ |-> <<>>, align |-> 1]>>,
           linkage, FALSE, denied, privileged) @@ [align |-> 1] :
        stOp \in {"t2STRi12", "t2STRBi12"}, trOp \in {"tBLXr", "tBX", "tBRIND"},
        linkage \in {"external", "internal"}, denied \in BOOLEAN,
        privileged \in BOOLEAN}

InitDeny ==
    /\ MBB = <<>> /\ preMBB = <<>> /\ lastEdit = NoEdit /\ edits = 0
    /\ \E MF \in DenyFunctions, opt \in SFIOptions :
          /\ prog = MF.blocks[1].insts
          /\ ctx = [kind |-> "deny", MF |-> MF, SilhouetteSFI |-> opt,
                    pass |-> "none", out |-> MF]
    /\ ip = 1
    /\ regs = InitRegs
    /\ mem = EmptyMem

\* the function leaves pass P as out
Leaves(P, out) ==
    /\ prog' = out.blocks[1].insts
    /\ ctx' = [ctx EXCEPT !.pass = P, !.out = out]
    /\ UNCHANGED <<ip, regs, mem>>
    /\ UNCHANGED editorVars

RunCFI ==
    /\ ctx.kind = "deny" /\ ctx.pass = "none"
    /\ \E ret \in SplitReturns : Leaves("CFI", cfiPass(ctx.MF, ret))

RunLabelCFI ==
    /\ ctx.kind = "deny" /\ ctx.pass = "none"
    /\ Leaves("LabelCFI", labelCFIPass(ctx.MF, <<>>, TRUE))

RunSFI ==
    /\ ctx.kind = "deny" /\ ctx.pass = "none"
    /\ Leaves("SFI", [ctx.MF EXCEPT !.blocks[1].insts =
                        sfiBlockPass(@, ctx.SilhouetteSFI, ctx.MF.denied,
                                     ctx.MF.privileged)])

RunSTR2STRT ==
    /\ ctx.kind = "deny" /\ ctx.pass = "none"
    /\ Leaves("STR2STRT", [ctx.MF EXCEPT !.blocks[1].insts =
                             str2strtPass(@, ctx.SilhouetteSFI, <<>>,
                                          ctx.MF.denied, ctx.MF.privileged)])

RunShadowStack ==
    /\ ctx.kind = "deny" /\ ctx.pass = "none"
    /\ Leaves("ShadowStack", [ctx.MF EXCEPT !.blocks[1].insts =
                                shadowStackRun(@, SHADOW_STACK_OFFSET, NULL,
                                               ctx.MF.denied, ctx.MF.privileged)])

NextDeny == RunCFI \/ RunLabelCFI \/ RunSFI \/ RunSTR2STRT \/ RunShadowStack

SpecDeny == InitDeny /\ [][NextDeny]_vars

\* C18: a function whose name is in the deny list, or whose section is the
\* privileged-functions section, leaves each of the five passes with the
\* instruction sequence and the alignment it entered with
C18_DeniedFunctionUnchanged ==
    (ctx.kind = "deny" /\ ctx.pass \in Passes
       /\ (ctx.MF.denied \/ ctx.MF.privileged)) => ctx.out = ctx.MF

\* the bit-masking pass has changed a function of the deny list
C18_MaskingIgnoresDenyList ==
    /\ ctx.kind = "deny" /\ ctx.pass = "CFI" /\ ctx.MF.denied
    /\ ctx.out.blocks[1].insts # ctx.MF.blocks[1].insts
    /\ ctx.out.align # ctx.MF.align

\* the passes that change a function of the privileged section off the list
C18_PrivilegedSectionIgnored ==
    (ctx.kind = "deny" /\ ctx.pass \in Passes /\ ctx.MF.privileged
       /\ ~ctx.MF.denied /\ ctx.out # ctx.MF)
    => ctx.pass \in {"CFI", "SFI", "ShadowStack"}

\* what the checks in the code give: label checking and privilege demotion
\* leave both kinds of function alone, SFI masking and the shadow stack
\* leave a function of the deny list alone
C18_ShortCircuitWhereChecked ==
    /\ (ctx.kind = "deny" /\ ctx.pass \in {"LabelCFI", "STR2STRT"}
          /\ (ctx.MF.denied \/ ctx.MF.privileged)) => ctx.out = ctx.MF
    /\ (ctx.kind = "deny" /\ ctx.pass \in {"SFI", "ShadowStack"}
          /\ ctx.MF.denied) => ctx.out = ctx.MF

----------------------------------------------------------------------------
(* SpecTeardown: the epilogue pop of a function, with each register list   *)
(* down to PC alone, is rewritten by the shadow-stack pass and the         *)
(* replacement is executed up to the load into PC.                         *)

PopLists == {<<PC>>, <<R4, PC>>, <<R4, R8, PC>>, <<R0, R4, R5, PC>>}

\* the words the epilogue finds on the stack
RECURSIVE StackImage(_, _, _)
StackImage(M, a, n) ==
    IF n = 0 THEN M
    ELSE StackImage(StoreN(M, a, 4, 2 ^ 16 + 257 * n), AddW(a, 4), n - 1)

InitTeardown ==
    /\ MBB = <<>> /\ preMBB = <<>> /\ lastEdit = NoEdit /\ edits = 0
    /\ \E popOp \in {"tPOP_RET", "t2LDMIA_RET"}, list \in PopLists,
          K \in ShadowOffsets, base \in {SP, R0}, np \in 0..1,
          stale \in BOOLEAN :
       LET sub == IF stale THEN np + 1 ELSE NULL
       IN /\ sub = NULL \/ ~(K - 4 \in 0..4095)
          /\ base = SP \/ popOp = "t2LDMIA_RET"
          /\ prog = [i \in 1..np |-> SInst(i, "tBL", NoRegister, NoRegister, 0,
                                           <<>>, {})]
                    \o <<SInst(np + 1, popOp, NoRegister, SP, 0, list,
                               {"FrameDestroy"})>>
          /\ ctx = [kind |-> "teardown", pop |-> prog[np + 1], K |-> K,
                    subInstr |-> sub, noRegBase |-> base, rewritten |-> FALSE,
                    done |-> FALSE]
    /\ ip = 1
    /\ regs = InitRegs
    /\ mem = StackImage(EmptyMem, InitRegs[SP], 5)

\* the shadow-stack pass rewrites the epilogue
RunTeardown ==
    /\ ctx.kind = "teardown" /\ ~ctx.rewritten
    /\ prog' = shadowStackPass(prog, ctx.K, ctx.subInstr)
    /\ ctx' = [ctx EXCEPT !.rewritten = TRUE]
    /\ ip' = 1
    /\ UNCHANGED <<regs, mem>>
    /\ UNCHANGED editorVars

\* the processor executes the next instruction of the epilogue; the load
\* into PC ends it
StepTeardown ==
    /\ ctx.kind = "teardown" /\ ctx.rewritten /\ ~ctx.done
    /\ ip <= Len(prog)
    /\ LET I  == Resolve(prog[ip], ctx.noRegBase)
           s1 == IF I.op = "tBL" THEN St(regs, mem) ELSE Exec(regs, mem, I)
       IN  /\ regs' = s1.regs
           /\ mem' = s1.mem
           /\ ctx' = [ctx EXCEPT !.done = WritesPC(I)]
    /\ ip' = ip + 1
    /\ UNCHANGED prog
    /\ UNCHANGED editorVars

NextTeardown == RunTeardown \/ StepTeardown

SpecTeardown == InitTeardown /\ [][NextTeardown]_vars

WithoutPC(list) == LET keep(r) == r # PC IN SelectSeq(list, keep)

\* position p holds the replacement: the pop of the original list without
\* PC, the SP increment of one word and the shadow load into PC
ReplacementAt(p) ==
    /\ p + 2 <= Len(prog)
    /\ prog[p].op = ctx.pop.op /\ prog[p].cc = ctx.pop.cc
    /\ prog[p].rn = ctx.pop.rn
    /\ prog[p].list = WithoutPC(ctx.pop.list)
    /\ Len(prog[p].list) >= 1
    /\ prog[p + 1].op = "tADDspi" /\ prog[p + 1].rt = SP /\ prog[p + 1].rn = SP
    /\ prog[p + 1].imm = 1
    /\ prog[p + 2].op = "t2LDRi12" /\ prog[p + 2].rt = PC

\* what the original pop leaves
OrigPop == Exec(InitRegs, mem, ctx.pop)

\* the rewritten epilogue holds the replacement and no pop of PC, and up to
\* the load into PC it leaves SP and the registers other than PC as the
\* original pop does
TeardownAsOriginal ==
    /\ \E p \in 1..Len(prog) : ReplacementAt(p)
    /\ \A j \in 1..Len(prog) : ~InList(PC, prog[j].list)
    /\ ctx.done => \A r \in 0..14 : regs[r] = OrigPop.regs[r]

\* C19: Teardown replaces a pop of PC by the pop of the original list
\* without PC (same registers, order and predicate), an SP increment of one
\* word and the shadow load into PC; the pop is valid and holds at least one
\* register whatever the list; afterwards SP and the registers other than
\* PC are what the original pop leaves
C19_TeardownReplacesPop ==
    (ctx.kind = "teardown" /\ ctx.rewritten) => TeardownAsOriginal

\* the pop of PC alone is replaced by a pop of no register
C19_PopOfNoRegister ==
    /\ ctx.kind = "teardown" /\ ctx.rewritten /\ ctx.pop.list = <<PC>>
    /\ \E p \in 1..Len(prog) :
          prog[p].op = ctx.pop.op /\ prog[p].list = <<>>
          /\ p + 1 <= Len(prog) /\ prog[p + 1].op = "tADDspi"

\* the 16-bit pop with at least one register besides PC, under an offset
\* that fits the load, is replaced as described
C19_PopWithRegistersReplaced ==
    (ctx.kind = "teardown" /\ ctx.rewritten /\ ctx.pop.op = "tPOP_RET"
       /\ Len(ctx.pop.list) > 1 /\ ctx.K - 4 \in 0..4095) => TeardownAsOriginal

----------------------------------------------------------------------------
(* SpecCodec: a mask, or a same/complement list, is taken through          *)
(* decodeITMask and encodeITMask in turn, as the editor does each time it  *)
(* re-encodes a header.                                                    *)

MaxTrips == 4

\* the lists of length 1..4 whose first element is true
DQMasks == UNION {{<<TRUE>> \o l : l \in [1..n -> BOOLEAN]} : n \in 0..3}

InitCodec ==
    /\ MBB = <<>> /\ preMBB = <<>> /\ lastEdit = NoEdit /\ edits = 0
    /\ prog = <<>> /\ ip = 0 /\ regs = InitRegs /\ mem = EmptyMem
    /\ \/ \E m \in 1..15 :
             ctx = [kind |-> "codec", given |-> "mask", from |-> m,
                    form |-> "mask", val |-> m, trips |-> 0]
       \/ \E l \in DQMasks :
             ctx = [kind |-> "codec", given |-> "list", from |-> l,
                    form |-> "list", val |-> l, trips |-> 0]

Decode ==
    /\ ctx.kind = "codec" /\ ctx.form = "mask" /\ ctx.trips < MaxTrips
    /\ ctx' = [ctx EXCEPT !.form = "list", !.val = decodeITMask(ctx.val),
                          !.trips = @ + 1]
    /\ UNCHANGED <<prog, ip, regs, mem>>
    /\ UNCHANGED editorVars

Encode ==
    /\ ctx.kind = "codec" /\ ctx.form = "list" /\ ctx.trips < MaxTrips
    /\ ctx' = [ctx EXCEPT !.form = "mask", !.val = encodeITMask(ctx.val),
                          !.trips = @ + 1]
    /\ UNCHANGED <<prog, ip, regs, mem>>
    /\ UNCHANGED editorVars

NextCodec == Decode \/ Encode

SpecCodec == InitCodec /\ [][NextCodec]_vars

\* C20: for each of the 15 non-zero masks m, encodeITMask(decodeITMask(m))
\* is m, and for each list l of length 1..4 that starts with true,
\* decodeITMask(encodeITMask(l)) is l; decoding gives such a list and
\* encoding gives such a mask
C20_CodecRoundTrip ==
    ctx.kind = "codec" =>
        /\ ctx.form = "mask" => ctx.val \in 1..15
        /\ ctx.form = "list" => ctx.val \in DQMasks
        /\ ctx.form = ctx.given => ctx.val = ctx.from

\* the mask 0b1010 (a block of three, the second complemented) after one
\* round trip, and the list same, complement, complement, same after one
C20_Witness ==
    /\ ctx.kind = "codec" /\ ctx.trips = 2
    /\ \/ ctx.given = "mask" /\ ctx.from = 10 /\ ctx.val = 10
       \/ ctx.given = "list" /\ ctx.from = <<TRUE, FALSE, FALSE, TRUE>>
          /\ ctx.val = ctx.from

----------------------------------------------------------------------------
(* SpecFind: findIT is called on the last instruction of a basic block     *)
(* whose earlier instructions are headers and other instructions in any    *)
(* arrangement.                                                            *)

\* instructions in front of MI in its basic block
MaxBack == 5

\* header masks: every block size, with and without complemented slots
FindMasks == {8, 4, 2, 10, 1}

\* the instructions in front of MI; ids are given by position
FindItems == {PlainInst(0)} \cup {ITInst(0, 0, m) : m \in FindMasks}

InitFind ==
    /\ MBB = <<>> /\ preMBB = <<>> /\ lastEdit = NoEdit /\ edits = 0
    /\ prog = <<>> /\ ip = 0 /\ regs = InitRegs /\ mem = EmptyMem
    /\ \E n \in 0..MaxBack : \E B \in [1..n -> FindItems] :
          ctx = [kind |-> "find",
                 S |-> [j \in 1..(n + 1) |->
                           IF j <= n THEN [B[j] EXCEPT !.id = j]
                           ELSE PlainInst(n + 1)],
                 called |-> FALSE, ret |-> NoIT]

CallFindIT ==
    /\ ctx.kind = "find" /\ ~ctx.called
    /\ ctx' = [ctx EXCEPT !.called = TRUE, !.ret = findIT(ctx.S, Len(ctx.S))]
    /\ UNCHANGED <<prog, ip, regs, mem>>
    /\ UNCHANGED editorVars

NextFind == CallFindIT

SpecFind == InitFind /\ [][NextFind]_vars

\* 4 minus the index of the lowest set bit of a mask
SizeByLowestBit(m) ==
    4 - (CHOOSE i \in 0..3 : Bit(m, i) = 1 /\ \A k \in 0..(i - 1) : Bit(m, k) = 0)

\* the nearest header in front of position p of S, or 0
NearestHeader(S, p) ==
    LET H == {q \in 1..(p - 1) : S[q].op = "t2IT"}
    IN  IF H = {} THEN 0 ELSE CHOOSE q \in H : \A r \in H : r <= q

\* C21: findIT returns the nearest header in front of MI and its distance d
\* exactly when d is in 1..4 and the block size of that header is at least
\* d, and none in every other case
C21_FindITNearestCoveringHeader ==
    (ctx.kind = "find" /\ ctx.called) =>
        LET p == Len(ctx.S)
            h == NearestHeader(ctx.S, p)
        IN  IF h # 0 /\ p - h \in 1..4 /\ SizeByLowestBit(ctx.S[h].mask) >= p - h
            THEN ctx.ret = [it |-> h, distance |-> p - h]
            ELSE ctx.ret = NoIT

\* MI follows a block of two within four instructions of its header, and
\* no header is returned
C21_Witness ==
    /\ ctx.kind = "find" /\ ctx.called /\ Len(ctx.S) = 4
    /\ ctx.S[1].op = "t2IT" /\ ctx.S[1].mask = 4
    /\ ctx.S[2].op = "inst" /\ ctx.S[3].op = "inst"
    /\ ctx.ret = NoIT

\* MI is the fourth instruction of a block of four
C21_LastOfFour ==
    /\ ctx.kind = "find" /\ ctx.called /\ Len(ctx.S) = 5
    /\ ctx.ret = [it |-> 1, distance |-> 4]

----------------------------------------------------------------------------
(* SpecJump: a function whose first block ends in a jump-table branch is   *)
(* given to the label-checking pass or to the bit-masking pass.            *)

\* the side list with only the first jump-table branch of the function
JTJsFirstOnly(MF) ==
    IF MF.denied \/ MF.privileged THEN <<>>
    ELSE LET all == Concat([b \in 1..Len(MF.blocks) |->
                              CollectOps(MF.blocks[b].insts, JumpTableOps)])
         IN  IF all = <<>> THEN <<>> ELSE <<Head(all)>>

\* ARMSilhouetteLabelCFI::runOnMachineFunction: the side list JTJs, one
\* entry for each jump-table branch met by the loop over the instructions
JTJs(MF) ==
    IF MF.denied \/ MF.privileged THEN <<>>
    ELSE Concat([b \in 1..Len(MF.blocks) |->
                   CollectOps(MF.blocks[b].insts, JumpTableOps)])

JumpFunctions ==
    {MFunc(<<[insts |-> <<FInst(1, "t2ADDri", R1), FInst(2, jt, R0)>>,
              succ |-> <<2>>, align |-> 1],
             [insts |-> <<FInst(3, "t2ADDri", R1), FInst(4, last, R0)>>,
              succ |-> succ2, align |-> 1]>>,
           linkage, FALSE, FALSE, FALSE) @@ [align |-> 1] :
        jt \in JumpTableOps, last \in LastOps \cup {"t2TBB_JT", "tBR_JTr"},
        succ2 \in {<<>>, <<1>>}, linkage \in {"external", "internal"}}

InitJump ==
    /\ MBB = <<>> /\ preMBB = <<>> /\ lastEdit = NoEdit /\ edits = 0
    /\ prog = <<>> /\ ip = 0 /\ regs = InitRegs /\ mem = EmptyMem
    /\ \E MF \in JumpFunctions, F \in {<<>>, <<R5>>} :
          ctx = [kind |-> "jump", MF |-> MF, FreeRegs |-> F, pass |-> "none",
                 ret |-> "new", out |-> MF, side |-> <<>>]

RunLabelOnJump ==
    /\ ctx.kind = "jump" /\ ctx.pass = "none"
    /\ ctx' = [ctx EXCEPT !.pass = "LabelCFI",
                          !.out = labelCFIPass(ctx.MF, ctx.FreeRegs, TRUE),
                          !.side = JTJs(ctx.MF)]
    /\ UNCHANGED <<prog, ip, regs, mem>>
    /\ UNCHANGED editorVars

RunMaskOnJump ==
    /\ ctx.kind = "jump" /\ ctx.pass = "none"
    /\ \E ret \in SplitReturns :
          ctx' = [ctx EXCEPT !.pass = "CFI", !.ret = ret,
                             !.out = cfiPass(ctx.MF, ret)]
    /\ UNCHANGED <<prog, ip, regs, mem>>
    /\ UNCHANGED editorVars

NextJump == RunLabelOnJump \/ RunMaskOnJump

SpecJump == InitJump /\ [][NextJump]_vars

\* the blocks with every jump-table branch made a direct branch, which
\* neither pass looks at
Opaque(blocks) ==
    [b \in 1..Len(blocks) |->
        [blocks[b] EXCEPT !.insts =
            [j \in 1..Len(@) |-> IF @[j].op \in JumpTableOps
                                 THEN [@[j] EXCEPT !.op = "tB"] ELSE @[j]]]]

\* the pass that ran, applied to function MF
PassOnJump(MF) ==
    IF ctx.pass = "LabelCFI" THEN labelCFIPass(MF, ctx.FreeRegs, TRUE)
    ELSE cfiPass(MF, ctx.ret)

\* the positions of the jump-table branches, as <<block, position>>
JumpTablePlaces(blocks) ==
    {<<b, j>> : b \in 1..Len(blocks), j \in 1..3} \cap
    {x \in (1..Len(blocks)) \X (1..3) :
        x[2] <= Len(blocks[x[1]].insts)
        /\ blocks[x[1]].insts[x[2]].op \in JumpTableOps}

\* C22: a jump-table branch is left as it is by both CFI passes: nothing is
\* inserted before it, no label is put in a successor on its account (the
\* instructions are those the pass produces when the branch is a direct
\* one), and the label-checking pass records one entry of its side list
\* for each such branch
C22_JumpTableBranchUnchanged ==
    (ctx.kind = "jump" /\ ctx.pass # "none") =>
        /\ \A x \in JumpTablePlaces(ctx.MF.blocks) :
              LET old == ctx.MF.blocks[x[1]].insts
                  new == ctx.out.blocks[x[1]].insts
                  q   == PositionOf(new, old[x[2]].id)
              IN  /\ new[q] = old[x[2]]
                  /\ q > 1 /\ new[q - 1] = old[x[2] - 1]
        /\ \A b \in 1..Len(ctx.MF.blocks) :
              Opaque(ctx.out.blocks)[b].insts
                 = PassOnJump([ctx.MF EXCEPT !.blocks = Opaque(@)]).blocks[b].insts
        /\ ctx.pass = "LabelCFI" =>
              /\ Len(ctx.side) = Cardinality(JumpTablePlaces(ctx.MF.blocks))
              /\ \A x \in JumpTablePlaces(ctx.MF.blocks) :
                    \E k \in 1..Len(ctx.side) :
                       ctx.side[k] = ctx.MF.blocks[x[1]].insts[x[2]]

\* the label pass has guarded an indirect jump of the second block, whose
\* successor is the block of a jump-table branch, and has recorded the
\* jump-table branch of the function
C22_Witness ==
    /\ ctx.kind = "jump" /\ ctx.pass = "LabelCFI"
    /\ Len(ctx.side) = 1 /\ ctx.MF.blocks[2].succ = <<1>>
    /\ Len(ctx.out.blocks[1].insts) > Len(ctx.MF.blocks[1].insts)
    /\ ctx.MF.blocks[2].insts[2].op = "tBRIND"
    /\ ctx.out.blocks[2].insts # ctx.MF.blocks[2].insts
    /\ ctx.out.blocks[1].insts[Len(ctx.out.blocks[1].insts)]
          = ctx.MF.blocks[1].insts[2]

\* the masking pass has masked an indirect call next to a jump-table branch
C22_MaskWitness ==
    /\ ctx.kind = "jump" /\ ctx.pass = "CFI"
    /\ ctx.MF.blocks[2].insts[2].op = "tBLXr"
    /\ ctx.out.blocks[2].insts # ctx.MF.blocks[2].insts
    /\ ctx.out.blocks[1].insts = ctx.MF.blocks[1].insts

----------------------------------------------------------------------------
(* SpecGuard: the label-checking pass on a block in which a header governs *)
(* the indirect transfer.                                                  *)

\* a header as an instruction of a function: operand 0 is the first
\* condition, operand 1 the mask
HeaderInst(id, cc, mask) ==
    [FInst(id, "t2IT", NoRegister) EXCEPT !.cc = cc, !.imm = mask]

\* np instructions, a header (cc, mask) whose block holds the transfer op
\* at rank r, and one instruction behind the block
GuardBlock(np, cc, mask, r, op) ==
    LET n == getITBlockSize(mask)
    IN  [i \in 1..np |-> FInst(i, "t2ADDri", R1)]
        \o <<HeaderInst(np + 1, cc, mask)>>
        \o [j \in 1..n |->
               [FInst(np + 1 + j, IF j = r THEN op ELSE "t2ADDri",
                      IF j = r THEN R0 ELSE R1)
                EXCEPT !.cc = HeaderConds(cc, mask)[j]]]
        \o <<FInst(np + 2 + n, "t2ADDri", R1)>>

GuardBlocks ==
    {GuardBlock(np, cc, mask, r, op) :
        np \in 0..1, cc \in Conds, mask \in 1..15, r \in 1..4,
        op \in {"tBRIND", "tBX", "tBLXr"}}

InitGuard ==
    /\ MBB = <<>> /\ preMBB = <<>> /\ lastEdit = NoEdit /\ edits = 0
    /\ prog = <<>> /\ ip = 0 /\ regs = InitRegs /\ mem = EmptyMem
    /\ \E S \in GuardBlocks, F \in {<<>>, <<R5>>}, Strt \in BOOLEAN :
          /\ \E j \in 1..Len(S) : S[j].op \in JumpOps \cup CallOps
          /\ Strt \/ F = <<>>
          /\ ctx = [kind |-> "guard", FreeRegs |-> F, Strt |-> Strt,
                    MF |-> MFunc(<<[insts |-> S, succ |-> <<>>]>>,
                                 "internal", FALSE, FALSE, FALSE),
                    out |-> <<>>, rewritten |-> FALSE]

\* the pass runs on the function
RunGuardPass ==
    /\ ctx.kind = "guard" /\ ~ctx.rewritten
    /\ ctx' = [ctx EXCEPT
                  !.out = labelCFIPass(ctx.MF, ctx.FreeRegs,
                                       ctx.Strt).blocks[1].insts,
                  !.rewritten = TRUE]
    /\ UNCHANGED <<prog, ip, regs, mem>>
    /\ UNCHANGED editorVars

NextGuard == RunGuardPass

SpecGuard == InitGuard /\ [][NextGuard]_vars

\* the headers of a block of a function and the instructions between them
HeaderView(S) ==
    [k \in 1..Len(S) |->
        IF S[k].op = "t2IT" THEN ITInst(k, S[k].cc, S[k].imm) ELSE PlainInst(k)]

GuardIn == ctx.MF.blocks[1].insts
GuardDone == ctx.kind = "guard" /\ ctx.rewritten

\* the position in the rewritten block of the j-th instruction given
GuardAt(j) == CHOOSE k \in 1..Len(ctx.out) : ctx.out[k].id = GuardIn[j].id

\* the position of the transfer in the block given
GuardTransfer == CHOOSE j \in 1..Len(GuardIn) : GuardIn[j].op \in JumpOps \cup CallOps

\* C24: after the check sequence is inserted before a governed indirect
\* transfer, no header lies inside the span of another header, the transfer
\* and every other originally governed instruction are governed under their
\* original condition, and the enclosing header governs no instruction of
\* the check sequence under a condition other than the transfer's.
C24_CheckKeepsGovernance ==
    GuardDone =>
        LET G0 == Governance(HeaderView(GuardIn))
            G1 == Governance(HeaderView(ctx.out))
            t  == GuardTransfer
        IN  /\ WellFormed(HeaderView(ctx.out))
            /\ \A k \in 1..Len(ctx.out) : G1[k].hdr => ~G1[k].gov
            /\ \A j \in 1..Len(GuardIn) :
                  (G0[j].gov /\ ~G0[j].hdr) =>
                      /\ G1[GuardAt(j)].gov
                      /\ G1[GuardAt(j)].cc = G0[j].cc
            /\ \A k \in 2..Len(ctx.out) :
                  (/\ ctx.out[k].id = 0 /\ G1[k].gov /\ ~G1[k].hdr
                   /\ ~(ctx.out[k - 1].id = 0 /\ ctx.out[k - 1].op = "t2IT"))
                      => G1[k].cc = G0[t].cc

\* it eq; bxeq r0 has been rewritten: the header is followed by the first
\* instruction of the check sequence, which it now governs, and the transfer
\* is governed by no header
C24_TransferLeftUngoverned ==
    /\ GuardDone
    /\ LET G1 == Governance(HeaderView(ctx.out))
           h  == GuardAt(GuardTransfer - 1)
           t  == GuardAt(GuardTransfer)
       IN  /\ GuardIn[GuardTransfer - 1].op = "t2IT"
           /\ getITBlockSize(GuardIn[GuardTransfer - 1].imm) = 1
           /\ ctx.out[h + 1].id = 0 /\ G1[h + 1].gov
           /\ ctx.out[t].cc # ARMCC_AL
           /\ ~G1[t].gov

\* the header of the check sequence lies inside the span of the enclosing
\* header
C24_HeaderInsideSpan ==
    /\ GuardDone
    /\ LET G1 == Governance(HeaderView(ctx.out))
       IN  \E k \in 1..Len(ctx.out) :
              ctx.out[k].id = 0 /\ G1[k].hdr /\ G1[k].gov

\* every governed transfer given to the pass comes out governed by no header
C24_GovernedTransferAlwaysLeftOut ==
    GuardDone => ~Governance(HeaderView(ctx.out))[GuardAt(GuardTransfer)].gov

----------------------------------------------------------------------------
(* The shadow-stack pass on a block with a header: the header of a block   *)
(* that holds a pop of PC is split into one header per instruction.        *)

\* BuildMI(MBB, MI, DL, TII->get(ARM::t2IT)).addImm(cond).addImm(mask)
buildIT(Blk, MI, cond, mask, flags) ==
    BuildMI(Blk, MI,
            [SInst(MaxIdOf(Blk) + 1, "t2IT", NoRegister, NoRegister, mask,
                   <<>>, flags) EXCEPT !.cc = cond])

PopOps == {"t2LDMIA_RET", "tPOP_RET", "tPOP"}

RECURSIVE scanForPOP(_, _, _)
\* the loop of the t2IT case over the i instructions behind the header,
\* q the position of condMI->getNextNode(); a debug value is not counted
scanForPOP(Blk, q, i) ==
    IF i = 0 \/ q > Len(Blk) THEN FALSE
    ELSE IF Blk[q].op \in PopOps /\ InList(PC, Blk[q].list) THEN TRUE
         ELSE scanForPOP(Blk, q + 1,
                         IF Blk[q].op = "DBG_VALUE" THEN i ELSE i - 1)

\* "Save new condition to ITconds": the condition of each instruction of
\* the block of the header (firstcond, mask)
splitITconds(firstcond, mask) ==
    <<firstcond>>
    \o [j \in 1..(getITBlockSize(mask) - 1) |->
           IF LSB(firstcond) = Bit(mask, 4 - j) THEN firstcond
           ELSE InvertLSB(firstcond)]

\* one iteration of the loop over the instructions of the block with the
\* pending conditions ITconds; opnd0 is what getOperand(0).getImm() & 1
\* yields for a pop whose operand 0 is not an immediate
visitShadowIT(Blk, MI, imm, subInstr, ITconds, opnd0) ==
    LET I      == Blk[IndexOf(Blk, MI)]
        rest   == IF ITconds = <<>> THEN <<>> ELSE Tail(ITconds)
        hdr(mask, flags) ==
            IF ITconds = <<>> THEN Blk
            ELSE buildIT(Blk, MI, Head(ITconds), mask, flags)
        single == [blk |-> hdr(8, {}), erase |-> {}, conds |-> rest]
    IN  CASE I.op = "t2IT" ->
               IF scanForPOP(Blk, IndexOf(Blk, MI) + 1,
                             getITBlockSize(I.imm % 16))
               THEN [blk |-> Blk, erase |-> {MI},
                     conds |-> splitITconds(I.cc, I.imm % 16)]
               ELSE [blk |-> Blk, erase |-> {}, conds |-> ITconds]
          [] I.op \in {"t2STMDB", "tPUSH"} ->
               IF "FrameSetup" \in I.flags /\ InList(LR, I.list)
               THEN With(hdr(4, {}), LAMBDA B :
                         [blk |-> visitShadow(B, MI, imm, subInstr).blk,
                          erase |-> {}, conds |-> rest])
               ELSE single
          [] I.op \in PopOps ->
               IF InList(PC, I.list)
               THEN LET firstcondLSB == IF I.op = "t2LDMIA_RET" THEN opnd0
                                        ELSE I.cc % 2
                    IN  With(hdr(2 + 8 * firstcondLSB + 4 * firstcondLSB,
                                 {"ShadowStack"}),
                             LAMBDA B :
                                With(visitShadow(B, MI, imm, subInstr),
                                     LAMBDA v : [blk |-> v.blk, erase |-> v.erase,
                                                 conds |-> rest]))
               ELSE single
          [] OTHER ->
               IF I.op = "DBG_VALUE"
               THEN [blk |-> Blk, erase |-> {}, conds |-> ITconds]
               ELSE single

RECURSIVE visitAllIT(_, _, _, _, _, _, _)
visitAllIT(Blk, ids, imm, subInstr, erase, ITconds, opnd0) ==
    IF ids = <<>> THEN [blk |-> Blk, erase |-> erase]
    ELSE With(visitShadowIT(Blk, Head(ids), imm, subInstr, ITconds, opnd0),
              LAMBDA v : visitAllIT(v.blk, Tail(ids), imm, subInstr,
                                    erase \cup v.erase, v.conds, opnd0))

\* ARMSilhouetteShadowStack::runOnMachineFunction on one block that may
\* hold headers
shadowStackPassIT(Blk, imm, subInstr, opnd0) ==
    With(visitAllIT(Blk, [j \in 1..Len(Blk) |-> Blk[j].id], imm, subInstr,
                    {}, <<>>, opnd0),
         LAMBDA v : Kept(v.blk, v.erase))

----------------------------------------------------------------------------
(* SpecSplit: a block whose header governs a pop of PC, and possibly the   *)
(* frame-setup push of LR, is given to the shadow-stack pass.              *)

\* the instructions a block holds in front of the pop
SplitBody == {"t2ADDri", "tPUSH"}

SplitInst(id, kind, cc) ==
    [(CASE kind = "tPUSH" ->
             SInst(id, "tPUSH", NoRegister, SP, 0, <<R4, LR>>, {"FrameSetup"})
        [] kind \in PopOps ->
             SInst(id, kind, NoRegister, SP, 0, <<R4, PC>>, {"FrameDestroy"})
        [] OTHER -> SInst(id, kind, R1, R1, 1, <<>>, {}))
     EXCEPT !.cc = cc]

\* np instructions, the header (cc, mask), the instructions body and then
\* the pop, each carrying the condition the header gives it, and one
\* instruction behind the block
SplitBlock(np, cc, mask, body, popOp) ==
    LET n == getITBlockSize(mask)
    IN  [i \in 1..np |-> SplitInst(i, "t2ADDri", ARMCC_AL)]
        \o <<[SInst(np + 1, "t2IT", NoRegister, NoRegister, mask, <<>>, {})
              EXCEPT !.cc = cc]>>
        \o [j \in 1..n |->
               SplitInst(np + 1 + j, IF j = n THEN popOp ELSE body[j],
                         CondAtRank(cc, mask, j))]
        \o <<SplitInst(np + 2 + n, "t2ADDri", ARMCC_AL)>>

InitSplit ==
    /\ MBB = <<>> /\ preMBB = <<>> /\ lastEdit = NoEdit /\ edits = 0
    /\ ip = 0 /\ regs = InitRegs /\ mem = EmptyMem
    /\ \E np \in 0..1, cc \in Conds, mask \in 1..15,
          popOp \in {"tPOP_RET", "tPOP"} :
          \E body \in [1..(getITBlockSize(mask) - 1) -> SplitBody] :
             /\ Cardinality({j \in DOMAIN body : body[j] = "tPUSH"}) <= 1
             /\ prog = SplitBlock(np, cc, mask, body, popOp)
             /\ ctx = [kind |-> "split", Blk |-> prog, rewritten |-> FALSE]

\* the pass runs on the block
RunSplit ==
    /\ ctx.kind = "split" /\ ~ctx.rewritten
    /\ prog' = shadowStackPassIT(prog, SHADOW_STACK_OFFSET, NULL, 0)
    /\ ctx' = [ctx EXCEPT !.rewritten = TRUE]
    /\ UNCHANGED <<ip, regs, mem>>
    /\ UNCHANGED editorVars

NextSplit == RunSplit

SpecSplit == InitSplit /\ [][NextSplit]_vars

SplitDone == ctx.kind = "split" /\ ctx.rewritten

\* the header of the block given, its instructions, and the instructions
\* the pass built
SplitHeader == CHOOSE j \in 1..Len(ctx.Blk) : ctx.Blk[j].op = "t2IT"
SplitSpan == (SplitHeader + 1)..(SplitHeader + getITBlockSize(ctx.Blk[SplitHeader].imm))
BuiltAt == {k \in 1..Len(prog) : prog[k].id > MaxIdOf(ctx.Blk) /\ prog[k].op # "t2IT"}

\* the instruction of the block given whose condition a built instruction
\* must have: the push for the shadow store in front of it, the pop for its
\* replacement
SplitOrigin(k) ==
    IF prog[k].op = "t2STRi12"
    THEN CHOOSE j \in SplitSpan : ctx.Blk[j].op = "tPUSH"
    ELSE CHOOSE j \in SplitSpan : ctx.Blk[j].op \in PopOps

\* governance of the rewritten block under G: the header is gone, no header
\* is governed, the governed instructions are the block's (without the
\* pop) and the built ones, each under the original condition
SplitKeepsGovernance(G0, G1) ==
    /\ \A k \in 1..Len(prog) : prog[k].id # ctx.Blk[SplitHeader].id
    /\ \A k \in 1..Len(prog) :
          G1[k].hdr => (~G1[k].gov /\ prog[k].imm % 16 # 0)
    /\ {k \in 1..Len(prog) : G1[k].gov /\ ~G1[k].hdr}
          = {IndexOf(prog, ctx.Blk[j].id) :
                j \in {i \in SplitSpan : ctx.Blk[i].op \notin PopOps}}
            \cup BuiltAt
    /\ \A j \in SplitSpan :
          ctx.Blk[j].op \notin PopOps =>
              G1[IndexOf(prog, ctx.Blk[j].id)].cc = G0[j].cc
    /\ \A k \in BuiltAt : G1[k].cc = G0[SplitOrigin(k)].cc

\* C25: after the shadow-stack pass on a header whose block holds a pop of
\* PC, for every base condition and mask the header is deleted, every
\* original instruction of the block and every inserted instruction is
\* governed by exactly one header under the original instruction's
\* effective condition, and no instruction behind the block is governed.
C25_SplitKeepsConditions ==
    SplitDone =>
        SplitKeepsGovernance(ReplayCFI(HeaderView(ctx.Blk), 1, <<>>),
                             ReplayCFI(HeaderView(prog), 1, <<>>))

\* itt ne; pushne {r4, lr}; popne {r4, pc} has been rewritten: the header
\* built for the shadow store and the push has mask 4 under NE, and the
\* push runs under EQ
C25_PushUnderOppositeCondition ==
    /\ SplitDone
    /\ ctx.Blk[SplitHeader].cc = ARMCC_NE
    /\ \E k \in 3..Len(prog) :
          /\ prog[k].op = "tPUSH" /\ prog[k].cc = ARMCC_NE
          /\ prog[k - 1].op = "t2STRi12"
          /\ prog[k - 2].op = "t2IT" /\ prog[k - 2].imm = 4
          /\ prog[k - 2].cc = ARMCC_NE
          /\ ReplayCFI(HeaderView(prog), 1, <<>>)[k].cc = 0

\* the same holds for every block without a frame-setup push of LR and for
\* every block whose push runs under an even condition code
C25_HoldsWithoutOddPush ==
    (/\ SplitDone
     /\ \A j \in SplitSpan :
           ctx.Blk[j].op = "tPUSH" => ctx.Blk[j].cc % 2 = 0)
        => SplitKeepsGovernance(ReplayCFI(HeaderView(ctx.Blk), 1, <<>>),
                                ReplayCFI(HeaderView(prog), 1, <<>>))

----------------------------------------------------------------------------
(* SpecGov: the condition of the rank-th instruction of a header's block   *)
(* as each pass derives it from the header.                                *)

\* the condition codes EQ .. LE
AllConds == 0..13

\* the editor: sameAsFirstCond = DQMask[distance - 1], and an instruction
\* that is not the same as the first runs under the opposite condition
condByDecode(cc, mask, r) ==
    IF decodeITMask(mask)[r] THEN cc ELSE getOppositeCondition(cc)

InitGov ==
    /\ MBB = <<>> /\ preMBB = <<>> /\ lastEdit = NoEdit /\ edits = 0
    /\ prog = <<>> /\ ip = 0 /\ regs = InitRegs /\ mem = EmptyMem
    /\ \E cc \in AllConds, mask \in 1..15 :
          \E r \in 1..getITBlockSize(mask) :
             ctx = [kind |-> "gov", cc |-> cc, mask |-> mask, r |-> r,
                    derived |-> {}, byDecode |-> 0, byFind |-> 0,
                    bySplit |-> 0]

DeriveByDecode ==
    /\ ctx.kind = "gov" /\ "decode" \notin ctx.derived
    /\ ctx' = [ctx EXCEPT !.byDecode = condByDecode(ctx.cc, ctx.mask, ctx.r),
                          !.derived = @ \cup {"decode"}]
    /\ UNCHANGED <<prog, ip, regs, mem>>
    /\ UNCHANGED editorVars

DeriveByFind ==
    /\ ctx.kind = "gov" /\ "find" \notin ctx.derived
    /\ ctx' = [ctx EXCEPT !.byFind = CondAtRank(ctx.cc, ctx.mask, ctx.r),
                          !.derived = @ \cup {"find"}]
    /\ UNCHANGED <<prog, ip, regs, mem>>
    /\ UNCHANGED editorVars

DeriveBySplit ==
    /\ ctx.kind = "gov" /\ "split" \notin ctx.derived
    /\ ctx' = [ctx EXCEPT !.bySplit = splitITconds(ctx.cc, ctx.mask)[ctx.r],
                          !.derived = @ \cup {"split"}]
    /\ UNCHANGED <<prog, ip, regs, mem>>
    /\ UNCHANGED editorVars

NextGov == DeriveByDecode \/ DeriveByFind \/ DeriveBySplit

SpecGov == InitGov /\ [][NextGov]_vars

AllDerived ==
    /\ ctx.kind = "gov"
    /\ ctx.derived = {"decode", "find", "split"}

\* C26: for every header (c, non-zero m) and rank r <= blockSize(m), the
\* condition of the rank-r instruction derived by decodeITMask, by
\* FindPrecedingIT and by the block splitter of the shadow-stack pass is
\* the same.
C26_SameGovernance ==
    AllDerived => (ctx.byDecode = ctx.byFind /\ ctx.byFind = ctx.bySplit)

\* the header ite ne (NE, mask 12), rank 2: EQ by decodeITMask, NE by
\* FindPrecedingIT and by the splitter
C26_OddBaseDiffers ==
    /\ AllDerived
    /\ ctx.cc = ARMCC_NE /\ ctx.mask = 12 /\ ctx.r = 2
    /\ ctx.byDecode = 0
    /\ ctx.byFind = ARMCC_NE /\ ctx.bySplit = ARMCC_NE

\* FindPrecedingIT and the splitter agree on every header, and all three
\* agree on every header with an even base condition and at rank 1
C26_AgreeOnEvenBase ==
    AllDerived =>
        /\ ctx.byFind = ctx.bySplit
        /\ (ctx.cc % 2 = 0 \/ ctx.r = 1) => ctx.byDecode = ctx.byFind

\* with an odd base condition the three differ at every rank above 1
C26_DifferOnOddBase ==
    (AllDerived /\ ctx.cc % 2 = 1 /\ ctx.r > 1) => ctx.byDecode # ctx.byFind

----------------------------------------------------------------------------
(* SpecPartition: one store without a tag, of any opcode the two store     *)
(* passes classify, is offered to the first loop of each pass under each   *)
(* SFI configuration.                                                      *)

InitPartition ==
    /\ MBB = <<>> /\ preMBB = <<>> /\ lastEdit = NoEdit /\ edits = 0
    /\ prog = <<>> /\ ip = 0 /\ regs = InitRegs /\ mem = EmptyMem
    /\ \E op \in LightweightStores \cup HeavyweightStores, opt \in SFIOptions :
          ctx = [kind |-> "partition", MI |-> [op |-> op], SilhouetteSFI |-> opt,
                 asked |-> {}, demotion |-> FALSE, masking |-> FALSE]

\* the first loop of the privilege-demotion pass reaches the store
CollectForDemotion ==
    /\ ctx.kind = "partition" /\ "demotion" \notin ctx.asked
    /\ ctx' = [ctx EXCEPT
                  !.demotion = str2strtCollects(ctx.MI, ctx.SilhouetteSFI),
                  !.asked = @ \cup {"demotion"}]
    /\ UNCHANGED <<prog, ip, regs, mem>>
    /\ UNCHANGED editorVars

\* the first loop of the address-masking pass reaches the store
CollectForMasking ==
    /\ ctx.kind = "partition" /\ "masking" \notin ctx.asked
    /\ ctx' = [ctx EXCEPT
                  !.masking = sfiCollects(ctx.MI, ctx.SilhouetteSFI),
                  !.asked = @ \cup {"masking"}]
    /\ UNCHANGED <<prog, ip, regs, mem>>
    /\ UNCHANGED editorVars

NextPartition == CollectForDemotion \/ CollectForMasking

SpecPartition == InitPartition /\ [][NextPartition]_vars

BothAsked == ctx.kind = "partition" /\ ctx.asked = {"demotion", "masking"}

\* C27: under each SFI configuration every recognised store without a tag
\* is collected by exactly one of the two store passes: a lightweight store
\* by address masking under full SFI and by privilege demotion otherwise, a
\* heavyweight store by privilege demotion under no SFI and by address
\* masking otherwise.
C27_ExactlyOnePassCollects ==
    BothAsked =>
        /\ ctx.demotion # ctx.masking
        /\ ctx.MI.op \in LightweightStores =>
              ctx.masking = (ctx.SilhouetteSFI = "FullSFI")
        /\ ctx.MI.op \in HeavyweightStores =>
              ctx.demotion = (ctx.SilhouetteSFI = "NoSFI")

\* C27 witness: under selective SFI a lightweight store went to privilege
\* demotion alone
C27_Witness ==
    /\ BothAsked
    /\ ctx.SilhouetteSFI = "SelSFI"
    /\ ctx.MI.op = "t2STRi12"
    /\ ctx.demotion /\ ~ctx.masking

\* under selective SFI a heavyweight store went to address masking alone
C27_HeavyweightWitness ==
    /\ BothAsked
    /\ ctx.SilhouetteSFI = "SelSFI"
    /\ ctx.MI.op = "tPUSH"
    /\ ctx.masking /\ ~ctx.demotion

----------------------------------------------------------------------------
(* SpecBoundary: a function is given to the bit-masking pass, the function *)
(* or one of its blocks is placed at an address its alignment allows, and  *)
(* the mask instruction of the pass is executed on that address.           *)

\* alignments (log2 of bytes) a function or block may have before the pass
AlignChoices == {1, 3}

BoundaryBlocks ==
    {[insts |-> <<FInst(1, "t2ADDri", R1), FInst(2, op, R0)>>, succ |-> <<>>,
      align |-> al] :
        op \in {"tBRIND", "tBLXr", "tBR_JTr", "tBL"}, al \in AlignChoices}

InitBoundary ==
    /\ MBB = <<>> /\ preMBB = <<>> /\ lastEdit = NoEdit /\ edits = 0
    /\ prog = <<>> /\ ip = 0 /\ regs = InitRegs /\ mem = EmptyMem
    /\ \E n \in 1..MaxBlocks, linkage \in {"external", "internal"},
          addrTaken \in BOOLEAN, al \in AlignChoices :
          \E blocks \in [1..n -> BoundaryBlocks] :
             ctx = [kind |-> "boundary",
                    MF |-> MFunc(blocks, linkage, addrTaken, FALSE, FALSE)
                           @@ [align |-> al],
                    masked |-> FALSE, placed |-> FALSE, target |-> 0, a |-> 0,
                    v |-> 0]

\* the pass runs on the function
RunBoundaryPass ==
    /\ ctx.kind = "boundary" /\ ~ctx.masked
    /\ \E ret \in SplitReturns :
          ctx' = [ctx EXCEPT !.masked = TRUE] @@ [out |-> cfiPass(ctx.MF, ret)]
    /\ UNCHANGED <<prog, ip, regs, mem>>
    /\ UNCHANGED editorVars

\* the function (target 0) or block `target` lies at a multiple a of its
\* alignment, and a transfer to it, with or without the Thumb bit, has its
\* register masked
MaskTarget ==
    /\ ctx.kind = "boundary" /\ ctx.masked /\ ~ctx.placed
    /\ \E target \in 0..Len(ctx.out.blocks), k \in 0..3, thumb \in 0..1 :
          LET al == IF target = 0 THEN ctx.out.align
                    ELSE ctx.out.blocks[target].align
              a  == CodeBase + k * Pow2(al)
              s1 == Exec([regs EXCEPT ![R0] = a + thumb], mem,
                         InsertBFC(<<>>, 1, R0)[1])
          IN  /\ regs' = s1.regs
              /\ ctx' = [ctx EXCEPT !.placed = TRUE, !.target = target,
                                    !.a = a, !.v = a + thumb]
    /\ UNCHANGED <<prog, ip, mem>>
    /\ UNCHANGED editorVars

NextBoundary == RunBoundaryPass \/ MaskTarget

SpecBoundary == InitBoundary /\ [][NextBoundary]_vars

\* the function given holds an indirect branch; it is visible to other
\* compilation units or has its address taken
HasIndirectBranch(MF) ==
    \E b \in 1..Len(MF.blocks) :
        \E j \in 1..Len(MF.blocks[b].insts) :
            MF.blocks[b].insts[j].op \in JumpOps \cup JumpTableOps
VisibleOrTaken(MF) == MF.linkage \notin {"internal", "private"} \/ MF.addrTaken

\* C28: after the bit-masking pass every block of a function that holds an
\* indirect branch is aligned to at least 4 bytes, a function that is
\* externally visible or address-taken is aligned to at least 4 bytes, and
\* the mask instruction leaves a transfer register that holds the address
\* of such a block or function as it was.
C28_AlignedTargetsSurviveMask ==
    (ctx.kind = "boundary" /\ ctx.masked) =>
        /\ HasIndirectBranch(ctx.MF) =>
              \A b \in 1..Len(ctx.out.blocks) : ctx.out.blocks[b].align >= 2
        /\ VisibleOrTaken(ctx.MF) => ctx.out.align >= 2
        /\ (/\ ctx.placed
            /\ IF ctx.target = 0 THEN VisibleOrTaken(ctx.MF)
               ELSE HasIndirectBranch(ctx.MF))
              => (BitW(ctx.a, 1) = 0 /\ regs[R0] = ctx.v)

\* C28 witness: a block of a function with an indirect branch had
\* alignment 2 bytes before the pass, lies at an odd multiple of 4 after it,
\* and a transfer to it has been masked
C28_Witness ==
    /\ ctx.kind = "boundary" /\ ctx.placed
    /\ ctx.target > 0
    /\ HasIndirectBranch(ctx.MF)
    /\ ctx.MF.blocks[ctx.target].align = 1
    /\ ctx.out.blocks[ctx.target].align = 2
    /\ ctx.a = CodeBase + 4
    /\ regs[R0] = ctx.a

\* a block of a function without an indirect branch keeps alignment 2
\* bytes, lies at an address with bit 1 set, and the mask changes it
C28_UnalignedBlockMasked ==
    /\ ctx.kind = "boundary" /\ ctx.placed
    /\ ctx.target > 0
    /\ ~HasIndirectBranch(ctx.MF)
    /\ ctx.out.blocks[ctx.target].align = 1
    /\ regs[R0] = ctx.v - 2

----------------------------------------------------------------------------
(* SpecUnknown: a block holding a store that the classification table of   *)
(* the store passes does not name, or an inline assembly that may store,   *)
(* goes through one of the two store passes.                               *)

\* MachineInstr::mayStore for the opcodes of the model: the stores of the
\* table, the store-exclusive, and an inline assembly that writes memory
mayStore(MI) ==
    MI.op \in LightweightStores \cup HeavyweightStores \cup {"t2STREX", "INLINEASM"}

\* the default case with inline assembly reported as well
unidentifiedStoreOrAsm(MI) ==
    /\ mayStore(MI) /\ "ShadowStack" \notin FlagsOf(MI)
    /\ MI.op \notin LightweightStores \cup HeavyweightStores

\* the first loop of either store pass: MI falls to the default case of the
\* switch, which writes "Unidentified store" to errs()
unidentifiedStore(MI) ==
    /\ mayStore(MI) /\ "ShadowStack" \notin FlagsOf(MI)
    /\ MI.op \notin LightweightStores \cup HeavyweightStores
    /\ MI.op # "INLINEASM"

\* the instructions of the block the first loop reports
reportsOf(Blk) == SelectSeq(Blk, unidentifiedStore)

\* the stores that no case of the table names
UnknownStores ==
    {Store("t2STREX", R0, R1, NoRegister, 0, <<>>),
     Store("INLINEASM", NoRegister, NoRegister, NoRegister, 0, <<>>)}

InitUnknown ==
    /\ MBB = <<>> /\ preMBB = <<>> /\ lastEdit = NoEdit /\ edits = 0
    /\ ip = 0 /\ regs = InitRegs /\ mem = EmptyMem
    /\ \E X \in UnknownStores, pre \in Neighbours, post \in Neighbours,
          opt \in SFIOptions, F \in {<<>>, <<R12>>} :
          /\ prog = pre \o <<X>> \o post
          /\ ctx = [kind |-> "unknown", X |-> X, pre |-> pre, post |-> post,
                    SilhouetteSFI |-> opt, FreeRegs |-> F, ran |-> "none",
                    reports |-> <<>>]

\* the privilege-demotion pass runs on the block
RunDemotionOnUnknown ==
    /\ ctx.kind = "unknown" /\ ctx.ran = "none"
    /\ prog' = str2strtPass(prog, ctx.SilhouetteSFI, ctx.FreeRegs, FALSE, FALSE)
    /\ ctx' = [ctx EXCEPT !.ran = "STR2STRT", !.reports = reportsOf(prog)]
    /\ UNCHANGED <<ip, regs, mem>>
    /\ UNCHANGED editorVars

\* the address-masking pass runs on the block
RunMaskingOnUnknown ==
    /\ ctx.kind = "unknown" /\ ctx.ran = "none"
    /\ prog' = sfiBlockPass(prog, ctx.SilhouetteSFI, FALSE, FALSE)
    /\ ctx' = [ctx EXCEPT !.ran = "SFI", !.reports = reportsOf(prog)]
    /\ UNCHANGED <<ip, regs, mem>>
    /\ UNCHANGED editorVars

NextUnknown == RunDemotionOnUnknown \/ RunMaskingOnUnknown

SpecUnknown == InitUnknown /\ [][NextUnknown]_vars

UnknownDone == ctx.kind = "unknown" /\ ctx.ran # "none"

\* the pass that ran, applied to a run of instructions, and whether its
\* first loop puts MI in Stores
UnknownPass(Blk) ==
    IF ctx.ran = "STR2STRT"
    THEN str2strtPass(Blk, ctx.SilhouetteSFI, ctx.FreeRegs, FALSE, FALSE)
    ELSE sfiBlockPass(Blk, ctx.SilhouetteSFI, FALSE, FALSE)
UnknownCollected(MI) ==
    IF ctx.ran = "STR2STRT" THEN str2strtCollects(MI, ctx.SilhouetteSFI)
    ELSE sfiCollects(MI, ctx.SilhouetteSFI)

\* the store is not put in Stores, stands in the block as it was with
\* nothing inserted around it, and the stores around it are rewritten as
\* they are without it
UnknownLeftAlone ==
    /\ ~UnknownCollected(ctx.X)
    /\ prog = UnknownPass(ctx.pre) \o <<ctx.X>> \o UnknownPass(ctx.post)

\* C29 as stated: a store of an opcode outside the classification table,
\* inline assembly included, is reported, is never put in Stores and so
\* never reaches the rewriting switch, is left unchanged with nothing
\* inserted around it, and every other store is classified and rewritten.
C29_UnknownStoreReported ==
    UnknownDone => (ctx.reports = <<ctx.X>> /\ UnknownLeftAlone)

\* C29 amended: the same, with the report made for the store that falls to
\* the default case and not for inline assembly.
C29_UnknownStoreLeftAlone ==
    UnknownDone =>
        /\ ctx.reports = (IF ctx.X.op = "INLINEASM" THEN <<>> ELSE <<ctx.X>>)
        /\ UnknownLeftAlone

\* C29 witness: a store-exclusive between two stores of the table went
\* through privilege demotion: it was reported and stands as it was, and a
\* store in front of it was rewritten
C29_Witness ==
    /\ UnknownDone /\ ctx.ran = "STR2STRT"
    /\ ctx.X.op = "t2STREX"
    /\ ctx.reports = <<ctx.X>>
    /\ ctx.pre # <<>> /\ UnknownPass(ctx.pre) # ctx.pre
    /\ \E j \in 1..Len(prog) : prog[j] = ctx.X

\* an inline assembly that may store went through a pass without a report
C29_InlineAsmNotReported ==
    /\ UnknownDone
    /\ ctx.X.op = "INLINEASM"
    /\ ctx.reports = <<>>
    /\ UnknownLeftAlone

----------------------------------------------------------------------------
(* SpecDebug: a block in which debug pseudo-instructions stand between the *)
(* instructions a header governs; the governing header of one governed     *)
(* instruction is searched, or the block is edited at that instruction.    *)

\* the most debug pseudo-instructions in front of one governed instruction
MaxDebug == 1

DebugInst(id) == [id |-> id, op |-> "DBG_VALUE", cc |-> ARMCC_AL, mask |-> 0]

\* the header (cc, mask), its governed instructions with dbg[j] debug
\* pseudo-instructions in front of the j-th, and one instruction behind;
\* the identity of an instruction is its position
DebugBlock(cc, mask, dbg) ==
    LET n == getITBlockSize(mask)
        S == <<ITInst(0, cc, mask)>>
             \o Concat([j \in 1..n |->
                           [i \in 1..dbg[j] |-> DebugInst(0)] \o <<PlainInst(0)>>])
             \o <<PlainInst(0)>>
    IN  [k \in 1..Len(S) |-> [S[k] EXCEPT !.id = k]]

InitDebug ==
    /\ \E cc \in Conds, mask \in 1..15 :
          \E dbg \in [1..getITBlockSize(mask) -> 0..MaxDebug] :
             MBB = DebugBlock(cc, mask, dbg)
    /\ preMBB = MBB
    /\ lastEdit = NoEdit
    /\ edits = 0
    /\ prog = <<>> /\ ip = 0 /\ regs = InitRegs /\ mem = EmptyMem
    /\ \E p \in 2..(Len(MBB) - 1) :
          /\ MBB[p].op = "inst"
          /\ ctx = [kind |-> "debug", p |-> p, searched |-> FALSE,
                    found |-> NoIT, foundCFI |-> NoHeader]

\* findIT and FindPrecedingIT are called on the instruction
SearchDebug ==
    /\ ctx.kind = "debug" /\ ~ctx.searched /\ edits = 0
    /\ ctx' = [ctx EXCEPT !.searched = TRUE,
                          !.found = findIT(MBB, ctx.p),
                          !.foundCFI = FindPrecedingIT(MBB, ctx.p)]
    /\ UNCHANGED <<prog, ip, regs, mem>>
    /\ UNCHANGED editorVars

InsertBeforeDebug ==
    /\ ctx.kind = "debug" /\ ~ctx.searched /\ edits = 0
    /\ \E k \in 1..MaxInsts :
          /\ MBB' = insertInstsBefore(MBB, ctx.p, NewInsts(MBB, k))
          /\ lastEdit' = [kind |-> "before", mi |-> MBB[ctx.p].id,
                          new |-> {MaxIdOf(MBB) + i : i \in 1..k}]
    /\ preMBB' = MBB
    /\ edits' = 1
    /\ UNCHANGED machineVars

InsertAfterDebug ==
    /\ ctx.kind = "debug" /\ ~ctx.searched /\ edits = 0
    /\ \E k \in 1..MaxInsts :
          /\ MBB' = insertInstsAfter(MBB, ctx.p, NewInsts(MBB, k))
          /\ lastEdit' = [kind |-> "after", mi |-> MBB[ctx.p].id,
                          new |-> {MaxIdOf(MBB) + i : i \in 1..k}]
    /\ preMBB' = MBB
    /\ edits' = 1
    /\ UNCHANGED machineVars

RemoveDebug ==
    /\ ctx.kind = "debug" /\ ~ctx.searched /\ edits = 0
    /\ MBB' = removeInst(MBB, ctx.p)
    /\ lastEdit' = [kind |-> "remove", mi |-> MBB[ctx.p].id, new |-> {}]
    /\ preMBB' = MBB
    /\ edits' = 1
    /\ UNCHANGED machineVars

NextDebug == SearchDebug \/ InsertBeforeDebug \/ InsertAfterDebug \/ RemoveDebug

SpecDebug == InitDebug /\ [][NextDebug]_vars

\* governance as the processor applies it to the emitted code, in which a
\* debug pseudo-instruction is no instruction
RECURSIVE ReplayReal(_, _, _)
ReplayReal(S, i, pending) ==
    IF i > Len(S) THEN <<>>
    ELSE IF S[i].op = "t2IT"
         THEN <<[gov |-> pending # <<>>, cc |-> ARMCC_AL, hdr |-> TRUE]>>
              \o ReplayReal(S, i + 1, HeaderConds(S[i].cc, S[i].mask % 16))
         ELSE IF pending = <<>> \/ S[i].op = "DBG_VALUE"
              THEN <<[gov |-> FALSE, cc |-> ARMCC_AL, hdr |-> FALSE]>>
                   \o ReplayReal(S, i + 1, pending)
              ELSE <<[gov |-> TRUE, cc |-> Head(pending), hdr |-> FALSE]>>
                   \o ReplayReal(S, i + 1, Tail(pending))

RealCondOf(S) ==
    LET G == ReplayReal(S, 1, <<>>)
    IN  [id \in Ids(S) |-> G[PosOf(S, id)]]

\* the real instructions between the header of the block given and the
\* instruction chosen
RealBetween == Cardinality({q \in 2..(ctx.p - 1) : preMBB[q].op = "inst"})

\* C30: the governing-header search skips debug pseudo-instructions: for a
\* governed instruction with j real instructions and any number of debug
\* pseudo-instructions between it and its header the search returns the
\* header with rank j + 1, and an insertion or removal at the instruction
\* leaves every real instruction of the block, and every inserted one,
\* governed under the condition it is due.
C30_SearchSkipsDebug ==
    ctx.kind = "debug" =>
        /\ ctx.searched =>
              /\ ctx.found = [it |-> 1, distance |-> RealBetween + 1]
              /\ ctx.foundCFI.it = 1 /\ ctx.foundCFI.Rank = RealBetween + 1
        /\ lastEdit.kind # "none" =>
              LET pre == RealCondOf(preMBB)
                  cur == RealCondOf(MBB)
              IN  /\ NoNestedHeader(cur)
                  /\ GovernedIn(cur) =
                        (GovernedIn(pre) \cup lastEdit.new)
                        \ (IF lastEdit.kind = "remove" THEN {lastEdit.mi} ELSE {})
                  /\ \A id \in GovernedIn(pre) \cap GovernedIn(cur) :
                        cur[id].cc = pre[id].cc
                  /\ \A id \in lastEdit.new \cap GovernedIn(cur) :
                        cur[id].cc = pre[lastEdit.mi].cc

\* it eq; DBG_VALUE; <inst>: the instruction is governed by the header and
\* both searches return no header
C30_DebugHidesHeader ==
    /\ ctx.kind = "debug" /\ ctx.searched
    /\ ctx.p = 3 /\ MBB[2].op = "DBG_VALUE"
    /\ getITBlockSize(MBB[1].mask) = 1
    /\ RealBetween = 0
    /\ ctx.found = NoIT /\ ctx.foundCFI = NoHeader

\* an insertion before that instruction leaves the header governing the
\* first inserted instruction and the instruction itself governed by none
C30_InsertionUncovered ==
    /\ ctx.kind = "debug" /\ lastEdit.kind = "before"
    /\ lastEdit.mi \in GovernedIn(RealCondOf(preMBB))
    /\ lastEdit.mi \notin GovernedIn(RealCondOf(MBB))
    /\ HeaderCount(MBB) = 1

\* both searches count every instruction they walk over: with no debug
\* pseudo-instruction between the header and the instruction they return
\* the header with rank j + 1
C30_SearchRightWithoutDebug ==
    (/\ ctx.kind = "debug" /\ ctx.searched
     /\ \A q \in 2..(ctx.p - 1) : MBB[q].op # "DBG_VALUE")
        => /\ ctx.found = [it |-> 1, distance |-> RealBetween + 1]
           /\ ctx.foundCFI.it = 1 /\ ctx.foundCFI.Rank = RealBetween + 1

====
